---------------------------- MODULE Spec2Model ----------------------------
(***************************************************************************)
(* AutoNewsC: three HTTP services (summarizer, tts-service, video-pipeline) *)
(* that validate a request, consult a content-addressed cache on disk,      *)
(* call a model or media library and return a URL to the artifact.          *)
(*                                                                          *)
(* Text is a sequence of one-character strings.  md5 is modelled as an      *)
(* injective tag on the hashed string.  The three services are separate     *)
(* processes that share no state: the variable service names the process a  *)
(* behaviour describes.                                                     *)
(***************************************************************************)
EXTENDS Integers, Sequences, FiniteSets, TLC

VARIABLES
    service,    \* the process this behaviour describes
    text,       \* text harness: the current text value
    prev,       \* text harness: the value before the last application
    napplied,   \* text harness: how often preprocess_text has been applied
    is_loaded,  \* ModelManager.is_loaded / TTSManager.is_loaded
    request,    \* the request being answered (NoRequest between two requests)
    response,   \* the response to it
    calls,      \* the provider invocations made while answering it
    cache_dir,  \* the files of config.CACHE_DIR
    output_dir, \* the files of config.OUTPUT_DIR
    populated,  \* history: the requests that generated an artifact, with their responses
    procs,      \* video-pipeline: the /render requests suspended at an await
    nreq        \* video-pipeline: the number of requests received

vars ==
    <<service, text, prev, napplied, is_loaded, request, response, calls,
      cache_dir, output_dir, populated, procs, nreq>>

textVars == <<text, prev, napplied>>

diskVars == <<cache_dir, output_dir, populated>>

videoVars == <<procs, nreq>>

(***************************************************************************)
(* Bounds of the model.                                                     *)
(***************************************************************************)
MaxPieces == 3
MaxBatch == 2

(***************************************************************************)
(* Character classes of Python's re module, on ASCII.                       *)
(***************************************************************************)
Lower == {"a","b","c","d","e","f","g","h","i","j","k","l","m",
          "n","o","p","q","r","s","t","u","v","w","x","y","z"}

Upper == {"A","B","C","D","E","F","G","H","I","J","K","L","M",
          "N","O","P","Q","R","S","T","U","V","W","X","Y","Z"}

Digits == {"0","1","2","3","4","5","6","7","8","9"}

\* \s
Whitespace == {" ", "\t", "\n", "\r", "\f"}

\* \w
WordChars == Lower \cup Upper \cup Digits \cup {"_"}

IsSpace(c) == c \in Whitespace

(***************************************************************************)
(* Python str methods.                                                      *)
(***************************************************************************)
Min(a, b) == IF a < b THEN a ELSE b

Max(a, b) == IF a > b THEN a ELSE b

\* the indices 1..n that satisfy Test, in increasing order
Indices(n, Test(_)) == SelectSeq([i \in 1..n |-> i], Test)

\* the indices of the non-whitespace characters of s, in increasing order
NonSpace(s) == Indices(Len(s), LAMBDA i : ~IsSpace(s[i]))

\* str.strip()
strip(s) ==
    LET ns == NonSpace(s)
    IN  IF ns = <<>> THEN <<>> ELSE SubSeq(s, ns[1], ns[Len(ns)])

\* str.split(): the maximal runs of non-whitespace characters
split(s) ==
    LET n == Len(s)
        starts == Indices(n, LAMBDA i : ~IsSpace(s[i]) /\ (i = 1 \/ IsSpace(s[i - 1])))
        ends   == Indices(n, LAMBDA i : ~IsSpace(s[i]) /\ (i = n \/ IsSpace(s[i + 1])))
    IN  [k \in 1..Len(starts) |-> SubSeq(s, starts[k], ends[k])]

RECURSIVE join(_, _)
\* sep.join(words)
join(sep, words) ==
    IF words = <<>> THEN <<>>
    ELSE IF Len(words) = 1 THEN words[1]
    ELSE words[1] \o sep \o join(sep, Tail(words))

StartsWith(s, p) == Len(s) >= Len(p) /\ SubSeq(s, 1, Len(p)) = p

Drop(s, n) == SubSeq(s, n + 1, Len(s))

RECURSIVE replace(_, _, _)
\* str.replace(old, new): leftmost non-overlapping occurrences, old non-empty
replace(s, old, new) ==
    IF s = <<>> THEN <<>>
    ELSE IF StartsWith(s, old) THEN new \o replace(Drop(s, Len(old)), old, new)
    ELSE <<Head(s)>> \o replace(Tail(s), old, new)

(***************************************************************************)
(* summarizer/main.py: preprocess_text                                      *)
(***************************************************************************)
\* re.sub(r'\s+', ' ', text): every maximal run of whitespace becomes one space
sub_whitespace(s) ==
    LET kept == Indices(Len(s), LAMBDA i : ~IsSpace(s[i]) \/ i = 1 \/ ~IsSpace(s[i - 1]))
    IN  [k \in 1..Len(kept) |-> IF IsSpace(s[kept[k]]) THEN " " ELSE s[kept[k]]]

\* the characters the class [^\w\s\.\,\!\?\;\:\-\(\)\"\'] does not match
KeptChars ==
    WordChars \cup Whitespace \cup {".", ",", "!", "?", ";", ":", "-", "(", ")", "\"", "'"}

\* re.sub(r'[^\w\s\.\,\!\?\;\:\-\(\)\"\']+', '', text)
sub_special(s) == SelectSeq(s, LAMBDA c : c \in KeptChars)

\* the range $-_ of the URL pattern: code points 0x24 to 0x5F
DollarToUnderscore ==
    {"$", "%", "&", "'", "(", ")", "*", "+", ",", "-", ".", "/", ":", ";", "<", "=",
     ">", "?", "@", "[", "\\", "]", "^", "_"} \cup Digits \cup Upper

\* (?:[a-zA-Z]|[0-9]|[$-_@.&+]|[!*\\(\\),]|(?:%[0-9a-fA-F][0-9a-fA-F]))
UrlChars ==
    Lower \cup Upper \cup Digits \cup DollarToUnderscore \cup {"@", ".", "&", "+"}
        \cup {"!", "*", "\\", "(", ")", ","}

\* the length of the match of http[s]?:// at index i of s, 0 if none
UrlHead(s, i) ==
    IF i + 6 <= Len(s) /\ s[i] = "h" /\ SubSeq(s, i, i + 6) = <<"h","t","t","p",":","/","/">>
    THEN 7
    ELSE IF i + 7 <= Len(s) /\ s[i] = "h"
            /\ SubSeq(s, i, i + 7) = <<"h","t","t","p","s",":","/","/">>
    THEN 8
    ELSE 0

\* the indices of s inside a match of http[s]?://(?:...)+ : a match starts
\* where the head is followed by a character of the class and runs to the
\* end of the run of such characters (the class holds every character of
\* the head, so a head inside a run belongs to the match around it)
UrlMatched(s) ==
    LET heads == {i \in 1..Len(s) : UrlHead(s, i) > 0 /\ i + UrlHead(s, i) <= Len(s)}
    IN  {j \in 1..Len(s) :
            \E i \in heads :
                /\ i <= j
                /\ \A k \in (i + UrlHead(s, i))..Max(j, i + UrlHead(s, i)) : s[k] \in UrlChars}

\* re.sub(r'http[s]?://(?:...)+', '', text)
sub_urls(s) ==
    LET matched == UrlMatched(s)
        kept == Indices(Len(s), LAMBDA i : i \notin matched)
    IN  [k \in 1..Len(kept) |-> s[kept[k]]]

sum_preprocess_text(s) == sub_urls(sub_special(strip(sub_whitespace(s))))

(***************************************************************************)
(* tts-service/main.py: preprocess_text                                     *)
(***************************************************************************)
ENABLE_PREPROCESSING == TRUE

\* ' '.join(text.split())
normalize_whitespace(s) == join(<<" ">>, split(s))

PauseMarks == <<".", ",", ";", ":", "!", "?">>

RECURSIVE add_pauses(_, _)
\* text.replace('.', '. ') ... text.replace('?', '? '), in source order
add_pauses(s, i) ==
    IF i > Len(PauseMarks) THEN s
    ELSE add_pauses(replace(s, <<PauseMarks[i]>>, <<PauseMarks[i], " ">>), i + 1)

\* the dict replacements, in insertion order
replacements ==
    << << <<" ","D","r",".">>,          <<" ","D","o","c","t","o","r">> >>,
       << <<" ","M","r",".">>,          <<" ","M","i","s","t","e","r">> >>,
       << <<" ","M","r","s",".">>,      <<" ","M","i","s","s","u","s">> >>,
       << <<" ","M","s",".">>,          <<" ","M","i","s","s">> >>,
       << <<" ","v","s",".">>,          <<" ","v","e","r","s","u","s">> >>,
       << <<" ","e","t","c",".">>,      <<" ","e","t","c","e","t","e","r","a">> >>,
       << <<" ","i",".","e",".">>,      <<" ","t","h","a","t"," ","i","s">> >>,
       << <<" ","e",".","g",".">>,      <<" ","f","o","r"," ","e","x","a","m","p","l","e">> >> >>

RECURSIVE expand_abbreviations(_, _)
expand_abbreviations(s, i) ==
    IF i > Len(replacements) THEN s
    ELSE expand_abbreviations(replace(s, replacements[i][1], replacements[i][2]), i + 1)

tts_preprocess_text(s) ==
    IF ~ENABLE_PREPROCESSING THEN s
    ELSE strip(expand_abbreviations(add_pauses(normalize_whitespace(s), 1), 1))

(***************************************************************************)
(* Request validation (pydantic models).  A text is validated through its   *)
(* measures: len(v), len(v.split()) and len(v.strip()).  A validation       *)
(* result is the set of the field names the ValidationError names.          *)
(***************************************************************************)
Measure(s) == [len |-> Len(s), words |-> Len(split(s)), stripped |-> Len(strip(s))]

\* (mutation) the minimum is exclusive
LengthOK_exclusive(m, lo, hi) == m.len > lo /\ m.len <= hi

\* Field(..., min_length=lo, max_length=hi)
LengthOK(m, lo, hi) == m.len >= lo /\ m.len <= hi

\* Field(..., ge=lo, le=hi)
RangeOK(v, lo, hi) == v >= lo /\ v <= hi

\* Optional[...]: None is the empty sequence, a value v is <<v>>
None == <<>>

Some(v) == <<v>>

\* summarizer/main.py SummarizeRequest; b.title, b.content, b.language are measures
SummarizeRequest_errors(b) ==
    {f \in {"title"} : ~LengthOK(b.title, 1, 200)}
    \cup {f \in {"content"} : ~(LengthOK(b.content, 100, 10000) /\ ~(b.content.words < 20))}
    \cup {f \in {"length_hint"} :
            ~(b.length_hint = None \/ RangeOK(b.length_hint[1], 30, 300))}
    \cup {f \in {"language"} : ~LengthOK(b.language, 2, 2)}

\* summarizer/main.py BatchSummarizeRequest; b.articles is a sequence of
\* SummarizeRequest bodies, b.count the number of items sent
BatchSummarizeRequest_errors(b) ==
    {f \in {"articles"} :
        \/ b.count > 10
        \/ \E i \in DOMAIN b.articles : SummarizeRequest_errors(b.articles[i]) # {}}

\* tts-service/main.py TTSRequest; speeds, pitches and volumes are in tenths
TTSRequest_errors(b) ==
    {f \in {"text"} : ~(LengthOK(b.text, 1, 1000) /\ ~(b.text.stripped = 0))}
    \cup {f \in {"speed"} : ~RangeOK(b.speed, 5, 20)}
    \cup {f \in {"pitch"} : ~RangeOK(b.pitch, 5, 20)}
    \cup {f \in {"volume"} : ~RangeOK(b.volume, 1, 20)}
    \cup {f \in {"sample_rate"} :
            ~(b.sample_rate = None \/ RangeOK(b.sample_rate[1], 8000, 48000))}

\* tts-service/main.py BatchTTSRequest: the items of texts are plain str
BatchTTSRequest_errors(b) ==
    {f \in {"texts"} : b.count > 5}
    \cup {f \in {"speed"} : ~RangeOK(b.speed, 5, 20)}

\* video-pipeline/src/main.py VideoRenderRequest
VideoRenderRequest_errors(b) ==
    {f \in {"summary_text"} :
        ~(LengthOK(b.summary_text, 10, 2000) /\ ~(b.summary_text.stripped = 0))}
    \cup {f \in {"title"} : ~LengthOK(b.title, 5, 100)}
    \cup {f \in {"duration"} : ~(b.duration = None \/ RangeOK(b.duration[1], 5, 300))}

\* video-pipeline/src/main.py ThumbnailRequest
ThumbnailRequest_errors(b) ==
    {f \in {"title"} : ~LengthOK(b.title, 5, 100)}
    \cup {f \in {"subtitle"} : ~(b.subtitle = None \/ b.subtitle[1].len <= 200)}

(***************************************************************************)
(* What the three services share: the static secret, HTTP responses.        *)
(***************************************************************************)
INTERNAL_SECRET == "dev-secret"

Tokens == {INTERNAL_SECRET, "wrong-token"}

\* (mutation) the dependency lets every token through
verify_internal_token_open(token) == token = token

\* verify_internal_token: TRUE iff the dependency lets the request through
verify_internal_token(token) == ~(token # INTERNAL_SECRET)

NoRequest == [endpoint |-> "none"]

NoResponse == [status |-> 0]

\* raise HTTPException(status_code=status, detail=detail)
HTTPException(status, detail) == [status |-> status, detail |-> detail]

\* FastAPI's answer to a request body that fails validation
RequestValidationError(fields) == [status |-> 422, fields |-> fields]

OK(body) == [status |-> 200, body |-> body]

\* an exception that no handler catches: the server's 500
UnhandledError(what) == [status |-> 500, detail |-> <<what>>, unhandled |-> TRUE]

RECURSIVE Repeat(_, _)
Repeat(s, n) == IF n = 0 THEN <<>> ELSE s \o Repeat(s, n - 1)

(***************************************************************************)
(* summarizer/main.py                                                       *)
(***************************************************************************)
MODEL_NAME == "facebook/bart-large-cnn"

FALLBACK_MODEL == "t5-small"

MAX_LENGTH == 150

MIN_LENGTH == 30

Titles == { <<"T","o","p"," ","s","t","o","r","y">> }

PlainContent == Repeat(<<"n","e","w","s"," ">>, 20)

\* twenty words of characters that preprocess_text removes
SymbolContent == Repeat(<<"*","*","*","*"," ">>, 20)

ShortContent == <<"n","e","w","s">>

Contents == {PlainContent, SymbolContent, ShortContent}

LengthHints == {Some(120), None}

\* preprocess_text(request.content) and the validator's measures of
\* request.content, tabulated once over the contents of the model
CleanContent == [c \in Contents |-> sum_preprocess_text(c)]

\* len(clean_content.split())
ContentWords == [c \in Contents |-> Len(split(CleanContent[c]))]

Languages == { <<"e","n">> }

SummarizerMeasure == [t \in Contents \cup Titles \cup Languages |-> Measure(t)]

TitleWords == [t \in Titles |-> Len(split(t))]

\* what a summarization pipeline does when invoked: it returns
\* [{'summary_text': ...}], returns something else, or raises
ProviderOutcomes ==
    { [kind |-> "ok", summary_text |-> <<"N","e","w","s"," ","o","k">>],
      [kind |-> "malformed", summary_text |-> <<>>],
      [kind |-> "raise", summary_text |-> <<>>] }

\* summary_result[0]['summary_text'] evaluates without raising
InvocationSucceeded(o) == o.kind = "ok"

target_length(length_hint, content_words) ==
    Min(length_hint, Max(30, content_words \div 10))

primary_call(target, o) ==
    [config |-> MODEL_NAME,
     max_length |-> Min(target + 50, MAX_LENGTH),
     min_length |-> Max(target - 20, MIN_LENGTH),
     outcome |-> o]

fallback_call(target, o) ==
    [config |-> FALLBACK_MODEL,
     max_length |-> target + 30,
     min_length |-> Max(target - 10, 20),
     outcome |-> o]

\* summary_text.strip(), then a final '.' if there is none
postprocess_summary(summary_text) ==
    LET t == strip(summary_text)
    IN  IF t # <<>> /\ t[Len(t)] = "." THEN t ELSE t \o <<".">>

\* a rational number: numerator and denominator, the denominator positive
Ratio(num, den) == [num |-> num, den |-> den]

\* abs(x)
Abs(x) == IF x < 0 THEN 0 - x ELSE x

\* max(lo, min(hi, x))
Clamp(x, lo, hi) == Max(lo, Min(hi, x))

\* what RougeScorer does: it returns the two f-measures (in tenths), or the
\* construction or the scoring raises
ScorerOutcomes ==
    { [kind |-> "ok", rouge1 |-> 5, rougeL |-> 5],
      [kind |-> "raise", rouge1 |-> 0, rougeL |-> 0] }

\* (mutation) the length score is not clamped to [0, 1]
length_score_unclamped(original_words, summary_words) ==
    5 * original_words - Abs(10 * summary_words - original_words)

\* length_score = max(0, min(1, 1 - abs(length_ratio - 0.1) * 2)), as
\* multiples of 1 / (5 * original_words); original_words > 0
length_score(original_words, summary_words) ==
    Clamp(5 * original_words - Abs(10 * summary_words - original_words),
          0, 5 * original_words)

\* (mutation) a failure of the scoring gives 0 instead of the default
calculate_quality_score_zero(original_words, summary_words, scorer) ==
    IF scorer.kind = "raise" \/ original_words = 0
    THEN Ratio(0, 1)
    ELSE Ratio(Clamp(35 * original_words * (scorer.rouge1 + scorer.rougeL)
                         + 60 * length_score(original_words, summary_words),
                     0, 1000 * original_words),
               1000 * original_words)

\* calculate_quality_score on the word counts of original and summary: an
\* exception of the scorer and the ZeroDivisionError of length_ratio are
\* caught and give 0.5; otherwise rouge_score * 0.7 + length_score * 0.3,
\* clamped to [0, 1], in multiples of 1 / (1000 * original_words)
calculate_quality_score(original_words, summary_words, scorer) ==
    IF scorer.kind = "raise" \/ original_words = 0
    THEN Ratio(1, 2)
    ELSE Ratio(Clamp(35 * original_words * (scorer.rouge1 + scorer.rougeL)
                         + 60 * length_score(original_words, summary_words),
                     0, 1000 * original_words),
               1000 * original_words)

\* (mutation) scored_sentences.sort without reverse=True
sorted_ascending(scored) ==
    [p \in DOMAIN scored |->
        scored[CHOOSE j \in DOMAIN scored :
                  p = 1 + Cardinality({k \in DOMAIN scored :
                                          \/ scored[k].score < scored[j].score
                                          \/ scored[k].score = scored[j].score /\ k < j})]]

\* (mutation) the minimum sentence length is not applied
qualifies_any(sentence) == sentence.words >= 0

\* len(sentence.split()) >= 5
qualifies(sentence) == sentence.words >= 5

\* total_score of the sentence at index i (from 0) of n sentences, as a
\* multiple of 1 / (200 * n): position_score * 0.7 + length_score * 0.3 with
\* position_score = 1.0 - (i / n) * 0.3, length_score = min(words / 20, 1.0)
total_score(i, n, words) == 14 * (10 * n - 3 * i) + 3 * n * Min(words, 20)

\* the (sentence, total_score) pairs of the sentences that qualify, in the
\* order of the text.  The score is kept in halves of 1 / (200 * n): the
\* floating-point sum may round two equal scores apart by one unit in the
\* last place, which rounding[i] decides.
scored_sentences(sentences, rounding) ==
    SelectSeq([i \in DOMAIN sentences |->
                  [sentence |-> sentences[i], index |-> i - 1,
                   score |-> 2 * total_score(i - 1, Len(sentences), sentences[i].words)
                                 + rounding[i]]],
              LAMBDA x : qualifies(x.sentence))

\* scored_sentences.sort(key=lambda x: x[1], reverse=True): the sort is
\* stable, pairs of equal score keep their order
sorted_reverse(scored) ==
    [p \in DOMAIN scored |->
        scored[CHOOSE j \in DOMAIN scored :
                  p = 1 + Cardinality({k \in DOMAIN scored :
                                          \/ scored[k].score > scored[j].score
                                          \/ scored[k].score = scored[j].score /\ k < j})]]

\* scored_sentences[:num_points], num_points >= 0
top(scored, num_points) == SubSeq(scored, 1, Min(num_points, Len(scored)))

\* the pairs extract_key_points returns the sentences of
ranked_sentences(sentences, num_points, rounding) ==
    top(sorted_reverse(scored_sentences(sentences, rounding)), num_points)

\* extract_key_points on the sentences nltk.sent_tokenize finds in the text
extract_key_points(sentences, num_points, rounding) ==
    [p \in DOMAIN ranked_sentences(sentences, num_points, rounding) |->
        ranked_sentences(sentences, num_points, rounding)[p].sentence]

\* the call calculate_quality_score(clean_content, summary_text) and what it
\* returned
scorer_call(original_words, summary_words, scorer) ==
    [config |-> "rouge_scorer", original_words |-> original_words,
     summary_words |-> summary_words, outcome |-> scorer,
     returned |-> calculate_quality_score(original_words, summary_words, scorer)]

SummaryFailed(detail, made) ==
    [raised |-> TRUE,
     error |-> HTTPException(500, <<"Summary generation failed", detail>>),
     calls |-> made]

\* (mutation) the fallback's failure is swallowed
invoke_pipelines_swallowing(target, prim, fall) ==
    [raised |-> FALSE,
     summary_text |-> IF InvocationSucceeded(prim) THEN prim.summary_text ELSE fall.summary_text,
     model_used |-> IF InvocationSucceeded(prim) THEN MODEL_NAME ELSE FALLBACK_MODEL,
     calls |-> IF InvocationSucceeded(prim)
               THEN <<primary_call(target, prim)>>
               ELSE <<primary_call(target, prim), fallback_call(target, fall)>>]

\* (mutation) a failed primary invocation is tried a second time before the
\* fallback
invoke_pipelines_retrying(target, prim, fall) ==
    IF InvocationSucceeded(prim)
    THEN [raised |-> FALSE, summary_text |-> prim.summary_text, model_used |-> MODEL_NAME,
          calls |-> <<primary_call(target, prim)>>]
    ELSE [raised |-> ~InvocationSucceeded(fall), summary_text |-> fall.summary_text,
          model_used |-> FALLBACK_MODEL,
          calls |-> <<primary_call(target, prim), primary_call(target, prim),
                      fallback_call(target, fall)>>]

\* the try/except of generate_summary: the primary pipeline, and the fallback
\* pipeline when the primary invocation raises
invoke_pipelines(target, prim, fall) ==
    IF InvocationSucceeded(prim)
    THEN [raised |-> FALSE, summary_text |-> prim.summary_text, model_used |-> MODEL_NAME,
          calls |-> <<primary_call(target, prim)>>]
    ELSE IF InvocationSucceeded(fall)
    THEN [raised |-> FALSE, summary_text |-> fall.summary_text, model_used |-> FALLBACK_MODEL,
          calls |-> <<primary_call(target, prim), fallback_call(target, fall)>>]
    ELSE [raised |-> TRUE, summary_text |-> <<>>, model_used |-> "none",
          calls |-> <<primary_call(target, prim), fallback_call(target, fall)>>]

\* the SummarizeResponse built from the post-processed summary; the
\* compression ratio summary_words / content_words is kept as a pair
SummarizeResponse(title, content_words, summary_text, summary_words, model_used, scorer) ==
    [summary |-> summary_text,
     length |-> summary_words,
     quality_score |-> calculate_quality_score(content_words, summary_words, scorer),
     model_used |-> model_used,
     metadata |-> [original_length |-> content_words,
                   compression_ratio |-> <<summary_words, content_words>>,
                   title_length |-> TitleWords[title]]]

\* the statements of generate_summary after the try/except; g is the result
\* of invoke_pipelines
summary_response(title, content_words, g, scorer) ==
    IF g.raised
    THEN SummaryFailed("fallback", g.calls)
    ELSE IF content_words = 0
    THEN SummaryFailed("ZeroDivisionError",
             Append(g.calls,
                    scorer_call(content_words,
                                Len(split(postprocess_summary(g.summary_text))), scorer)))
    ELSE [raised |-> FALSE,
          value |-> SummarizeResponse(title, content_words,
                                      postprocess_summary(g.summary_text),
                                      Len(split(postprocess_summary(g.summary_text))),
                                      g.model_used, scorer),
          calls |-> Append(g.calls,
                           scorer_call(content_words,
                                       Len(split(postprocess_summary(g.summary_text))),
                                       scorer))]

\* generate_summary: the SummarizeResponse, or the HTTPException it raises,
\* with the invocations made.  prim and fall are what the two pipelines do
\* when invoked, scorer what the overlap scorer does.
generate_summary(req, prim, fall, scorer) ==
    IF req.length_hint = None
    THEN SummaryFailed("TypeError", <<>>)
    ELSE summary_response(req.title, ContentWords[req.content],
             invoke_pipelines(target_length(req.length_hint[1], ContentWords[req.content]),
                              prim, fall),
             scorer)

\* the request body as the validators measure it
SummarizeMeasures(b) ==
    [title |-> SummarizerMeasure[b.title], content |-> SummarizerMeasure[b.content],
     length_hint |-> b.length_hint, language |-> SummarizerMeasure[b.language]]

BatchSummarizeMeasures(b) ==
    [articles |-> [i \in DOMAIN b.articles |-> SummarizeMeasures(b.articles[i])],
     count |-> Len(b.articles)]

\* FastAPI, before the handler runs: the Depends(verify_internal_token)
\* dependency, then the validation of the body; handled is what the handler
\* answers
Route(token, errors, handled) ==
    IF ~verify_internal_token(token)
    THEN [response |-> HTTPException(401, <<"Invalid authentication token">>), calls |-> <<>>]
    ELSE IF errors # {}
    THEN [response |-> RequestValidationError(errors), calls |-> <<>>]
    ELSE handled

\* return await generate_summary(request)
summary_result(r) ==
    [response |-> IF r.raised THEN r.error ELSE OK(r.value), calls |-> r.calls]

\* POST /summarize: the handler
\* (mutation) the handler does not look at is_loaded
summarize_article_unguarded(loaded, body, prim, fall, scorer) ==
    summary_result(generate_summary(body, prim, fall, scorer))

summarize_article(loaded, body, prim, fall, scorer) ==
    IF ~loaded
    THEN [response |-> HTTPException(503, <<"Models not loaded yet">>), calls |-> <<>>]
    ELSE summary_result(generate_summary(body, prim, fall, scorer))

\* the entry summarize_batch builds for a task that raised
error_response(e) ==
    [summary |-> <<"Error processing article">> \o e.detail,
     length |-> 0,
     model_used |-> "error",
     metadata |-> [error |-> e.detail]]

\* (mutation) a failed item also replaces the entries that follow it
batch_result_spreading(results) ==
    [response |-> OK([i \in DOMAIN results |->
                         IF \E j \in 1..i : results[j].raised
                         THEN error_response(HTTPException(500, <<"Summary generation failed">>))
                         ELSE results[i].value]),
     calls |-> [i \in DOMAIN results |-> results[i].calls]]

\* asyncio.gather(*tasks, return_exceptions=True) and the loop over its results
batch_result(results) ==
    [response |-> OK([i \in DOMAIN results |->
                         IF results[i].raised
                         THEN error_response(results[i].error)
                         ELSE results[i].value]),
     calls |-> [i \in DOMAIN results |-> results[i].calls]]

\* POST /summarize/batch: the handler; outcomes[i] is what the pipelines do
\* for article i
summarize_batch(loaded, body, outcomes) ==
    IF ~loaded
    THEN [response |-> HTTPException(503, <<"Models not loaded yet">>), calls |-> <<>>]
    ELSE IF Len(body.articles) > 10
    THEN [response |-> HTTPException(400, <<"Maximum 10 articles per batch">>), calls |-> <<>>]
    ELSE batch_result([i \in DOMAIN body.articles |->
                          generate_summary(body.articles[i], outcomes[i].prim,
                                           outcomes[i].fall, outcomes[i].scorer)])

(***************************************************************************)
(* The summarizer process.                                                  *)
(***************************************************************************)
SummarizeBodies ==
    [title : Titles, content : Contents, length_hint : LengthHints,
     language : Languages]

\* the articles of the batches of the model
BatchArticles ==
    {b \in SummarizeBodies : b.length_hint = Some(120) \/ b.content = PlainContent}

\* what the two pipelines and the scorer do for one article; the fallback's
\* outcome matters only when the primary fails, the scorer's only when a
\* pipeline returned a summary
ItemOutcomes ==
    {o \in [prim : ProviderOutcomes, fall : ProviderOutcomes, scorer : ScorerOutcomes] :
        /\ o.prim.kind = "ok" => o.fall.kind = "ok"
        /\ o.fall.kind # "ok" => o.scorer.kind = "ok"}

\* what they do for an article of a batch: a pipeline returns a summary or
\* raises, and the scorer returns
BatchOutcomes ==
    {o \in ItemOutcomes :
        /\ o.scorer.kind = "ok"
        /\ o.prim.kind # "malformed"
        /\ o.fall.kind # "malformed"}

\* ModelManager.load_models, on startup
load_models ==
    /\ service = "summarizer"
    /\ request = NoRequest
    /\ ~is_loaded
    /\ is_loaded' = TRUE
    /\ UNCHANGED <<service, textVars, request, response, calls, diskVars, videoVars>>

\* a request is received and answered: the handler has no await, so no other
\* request is served in between
Answer(endpoint, token, body, answer) ==
    /\ request' = [endpoint |-> endpoint, token |-> token, body |-> body, known |-> populated]
    /\ response' = answer.response
    /\ calls' = answer.calls

\* what a /summarize request that was answered with a summary adds to the
\* history
Summarized(body, resp) ==
    IF resp.status = 200 THEN {[body |-> body, response |-> resp.body]} ELSE {}

SummarizeArticle ==
    /\ service = "summarizer"
    /\ request = NoRequest
    /\ \E token \in Tokens, body \in SummarizeBodies, o \in ItemOutcomes :
          /\ Answer("/summarize", token, body,
                    Route(token, SummarizeRequest_errors(SummarizeMeasures(body)),
                          summarize_article(is_loaded, body, o.prim, o.fall, o.scorer)))
          /\ populated' = populated \cup Summarized(body, response')
    /\ UNCHANGED <<service, textVars, is_loaded, cache_dir, output_dir, videoVars>>

SummarizeBatch ==
    /\ service = "summarizer"
    /\ request = NoRequest
    /\ \E token \in Tokens, n \in 0..MaxBatch :
          \E articles \in [1..n -> BatchArticles], outcomes \in [1..n -> BatchOutcomes] :
              Answer("/summarize/batch", token, [articles |-> articles],
                     Route(token,
                           BatchSummarizeRequest_errors(
                               BatchSummarizeMeasures([articles |-> articles])),
                           summarize_batch(is_loaded, [articles |-> articles], outcomes)))
    /\ UNCHANGED <<service, textVars, is_loaded, diskVars, videoVars>>

\* the response has been sent: the request and its response are discarded
Discard ==
    /\ request # NoRequest
    /\ request' = NoRequest
    /\ response' = NoResponse
    /\ calls' = <<>>
    /\ UNCHANGED <<service, textVars, is_loaded, diskVars, videoVars>>

InitServices ==
    /\ is_loaded = FALSE
    /\ request = NoRequest
    /\ response = NoResponse
    /\ calls = <<>>
    /\ text = <<>>
    /\ prev = <<>>
    /\ napplied = 0
    /\ cache_dir = {}
    /\ output_dir = {}
    /\ populated = {}
    /\ procs = <<>>
    /\ nreq = 0

InitSummarizer == service = "summarizer" /\ InitServices

NextSummarizer == load_models \/ SummarizeArticle \/ SummarizeBatch \/ Discard

SpecSummarizer == InitSummarizer /\ [][NextSummarizer]_vars

(***************************************************************************)
(* Properties of the summarizer.                                            *)
(***************************************************************************)
\* the invocations of a summarization pipeline among the calls
Pipelines(made) == SelectSeq(made, LAMBDA c : c.config \in {MODEL_NAME, FALLBACK_MODEL})

\* the calls of the quality scorer among the calls
Scored(made) == SelectSeq(made, LAMBDA c : c.config = "rouge_scorer")

\* the pipeline invocations made for the /summarize request being answered
Made == IF request.endpoint = "/summarize" THEN Pipelines(calls) ELSE <<>>

PrimaryFailed(made) == Len(made) >= 1 /\ ~InvocationSucceeded(made[1].outcome)

FallbackSucceeded(made) == Len(made) >= 2 /\ InvocationSucceeded(made[2].outcome)

\* C2: for a /summarize request, a failed primary invocation followed by a
\* successful fallback gives a success response whose model_used is the
\* fallback model; a successful primary invocation gives a success response
\* whose model_used is the primary model without any fallback invocation; a
\* failed primary is always followed by the fallback.
C2_FallbackAttribution ==
    (request.endpoint = "/summarize" /\ Len(Made) >= 1) =>
        /\ PrimaryFailed(Made) => Len(Made) = 2
        /\ (PrimaryFailed(Made) /\ FallbackSucceeded(Made)) =>
              (response.status = 200 /\ response.body.model_used = FALLBACK_MODEL)
        /\ ~PrimaryFailed(Made) =>
              (Len(Made) = 1 /\ response.status = 200
                  /\ response.body.model_used = MODEL_NAME)

\* the part of C2 that the code keeps: attribution on the success responses
C2_AttributionOnSuccess ==
    (request.endpoint = "/summarize" /\ response.status = 200) =>
        /\ Len(Made) >= 1
        /\ PrimaryFailed(Made) => Len(Made) = 2
        /\ (response.body.model_used = FALLBACK_MODEL) <=> PrimaryFailed(Made)
        /\ ~PrimaryFailed(Made) => (Len(Made) = 1 /\ response.body.model_used = MODEL_NAME)

\* C3: for a /summarize request, when the primary invocation fails and the
\* fallback invocation fails too, the response is a 500 and carries no
\* success body.
C3_BothFail500 ==
    (request.endpoint = "/summarize" /\ PrimaryFailed(Made) /\ Len(Made) = 2
        /\ ~FallbackSucceeded(Made)) =>
        (response.status = 500 /\ "body" \notin DOMAIN response)

\* the configurations invoked, in order
Configs(made) == [i \in DOMAIN made |-> made[i].config]

\* C14: within one /summarize request the primary summarizer is invoked at
\* most once and the fallback at most once, the fallback only after a failed
\* primary invocation, and no configuration twice: the invocations are
\* none, the primary alone, or the failed primary followed by the fallback.
C14_BoundedInvocations ==
    request.endpoint = "/summarize" =>
        \/ Made = <<>>
        \/ Configs(Made) = <<MODEL_NAME>>
        \/ Configs(Made) = <<MODEL_NAME, FALLBACK_MODEL>> /\ PrimaryFailed(Made)

C14_Witness ==
    /\ request.endpoint = "/summarize"
    /\ Configs(Made) = <<MODEL_NAME, FALLBACK_MODEL>>
    /\ Made[1].outcome.kind = "raise"
    /\ response.status = 200

C3_Witness ==
    /\ request.endpoint = "/summarize"
    /\ Len(Made) = 2
    /\ Made[1].outcome.kind = "raise"
    /\ Made[2].outcome.kind = "malformed"
    /\ response.status = 500

\* what generate_summary gives for one article on its own, the pipelines
\* behaving as in the recorded invocations
Alone(article, made) ==
    generate_summary(article,
        IF Len(Pipelines(made)) >= 1 THEN Pipelines(made)[1].outcome
        ELSE CHOOSE o \in ProviderOutcomes : TRUE,
        IF Len(Pipelines(made)) >= 2 THEN Pipelines(made)[2].outcome
        ELSE CHOOSE o \in ProviderOutcomes : TRUE,
        IF Len(Scored(made)) >= 1 THEN Scored(made)[1].outcome
        ELSE CHOOSE o \in ScorerOutcomes : TRUE)

IsPlaceholder(entry, error) ==
    /\ entry.model_used = "error"
    /\ entry.length = 0
    /\ entry.metadata = [error |-> error.detail]

\* C6: a /summarize/batch request with N <= 10 valid articles is answered
\* with a list of N entries in input order; entry i is a placeholder
\* (model_used "error", length 0, the error in its metadata) when article i
\* failed, and otherwise exactly the response article i gets on its own,
\* whatever happened to the other articles.
C6_BatchIsolation ==
    (/\ request.endpoint = "/summarize/batch"
     /\ verify_internal_token(request.token)
     /\ BatchSummarizeRequest_errors(BatchSummarizeMeasures(request.body)) = {}
     /\ is_loaded) =>
        /\ response.status = 200
        /\ Len(response.body) = Len(request.body.articles)
        /\ \A i \in DOMAIN request.body.articles :
              IF Alone(request.body.articles[i], calls[i]).raised
              THEN IsPlaceholder(response.body[i],
                                 Alone(request.body.articles[i], calls[i]).error)
              ELSE response.body[i] = Alone(request.body.articles[i], calls[i]).value

C6_Witness ==
    /\ request.endpoint = "/summarize/batch"
    /\ response.status = 200
    /\ Len(response.body) = 2
    /\ response.body[1].model_used = "error"
    /\ response.body[2].model_used = MODEL_NAME

(***************************************************************************)
(* Files.  A directory is the set of its files; a file is a record with a   *)
(* name and what stat() and the media libraries read from it.               *)
(***************************************************************************)
\* Path.exists()
exists(dir, name) == \E f \in dir : f.name = name

\* the file of that name
file_at(dir, name) == CHOOSE f \in dir : f.name = name

\* a write creates the file or replaces its content
write_file(dir, f) == {g \in dir : g.name # f.name} \cup {f}

\* Path.unlink()
unlink(dir, name) == {g \in dir : g.name # name}

\* hashlib.md5(content.encode()).hexdigest(), taken to be injective
md5(content) == <<"md5", content>>

(***************************************************************************)
(* tts-service/main.py                                                      *)
(***************************************************************************)
MAX_TEXT_LENGTH == 1000

DefaultVoice == <<"d","e","f","a","u","l","t">>

MaleVoice == <<"m","a","l","e">>

Wav == <<"w","a","v">>

DigitChar == <<"0","1","2","3","4","5","6","7","8","9">>

\* str(speed) of a float with one decimal, the speed given in tenths
FormatFloat(tenths) ==
    <<DigitChar[(tenths \div 10) + 1], ".", DigitChar[(tenths % 10) + 1]>>

\* generate_file_hash: md5 of f"{text}_{voice_id}_{speed}"
generate_file_hash(txt, voice_id, speed) ==
    md5(txt \o <<"_">> \o voice_id \o <<"_">> \o FormatFloat(speed))

\* the TTSRequest object pydantic builds from a body that passes validation:
\* validate_text returns ' '.join(v.split())
TTSRequest(b) ==
    [text |-> normalize_whitespace(b.text), voice_id |-> b.voice_id, speed |-> b.speed,
     pitch |-> b.pitch, volume |-> b.volume, sample_rate |-> b.sample_rate,
     format |-> b.format]

\* a TTS body as the validators measure it
TTSMeasures(b) ==
    [text |-> Measure(b.text), speed |-> b.speed, pitch |-> b.pitch,
     volume |-> b.volume, sample_rate |-> b.sample_rate]

\* TTSRequest(text=text, voice_id=request.voice_id, speed=request.speed):
\* the other fields take their defaults
BatchItem(b, i) ==
    [text |-> b.texts[i], voice_id |-> b.voice_id, speed |-> b.speed,
     pitch |-> 10, volume |-> 10, sample_rate |-> Some(22050), format |-> Wav]

BatchTTSMeasures(b) == [count |-> Len(b.texts), speed |-> b.speed]

\* what tts_manager.tts.tts does when invoked: it writes the wav file and
\* returns, or raises
EngineOutcomes ==
    { [kind |-> "ok", frames |-> 44100, sample_rate |-> 22050],
      [kind |-> "raise", frames |-> 0, sample_rate |-> 0] }

\* len(postprocess_audio(...)): speedup shortens the audio by the speed
\* factor; pitch is not used
postprocess_audio(frames, speed) == IF speed # 10 THEN (frames * 10) \div speed ELSE frames

\* Path(config.CACHE_DIR) / f"{cache_key}.{request.format}"
cache_file(req) ==
    <<generate_file_hash(tts_preprocess_text(req.text), req.voice_id, req.speed), req.format>>

\* Path(config.OUTPUT_DIR) / f"{cache_key}.wav"
output_path(req) ==
    <<generate_file_hash(tts_preprocess_text(req.text), req.voice_id, req.speed), Wav>>

\* f"/audio/{cache_key}.{request.format}"
audio_url(req) == <<"/audio/">> \o cache_file(req)

\* request.sample_rate or sample_rate
write_rate(req, engine) ==
    IF req.sample_rate = None THEN engine.sample_rate ELSE req.sample_rate[1]

\* the TTSResponse of a cache hit, read from the cached file
cached_speech(req, f) ==
    [audio_url |-> audio_url(req),
     duration |-> <<f.frames, f.samplerate>>,
     sample_rate |-> f.samplerate,
     format |-> req.format,
     file_size |-> f.size,
     voice_used |-> req.voice_id,
     metadata |-> [cached |-> TRUE, text_length |-> Len(tts_preprocess_text(req.text))]]

\* the file sf.write stores in the cache: the size of a file is a function
\* of its content
speech_file(req, frames, rate) ==
    [name |-> cache_file(req), frames |-> frames, samplerate |-> rate, size |-> frames]

\* the TTSResponse of a cache miss
generated_speech(req, frames, rate) ==
    [audio_url |-> audio_url(req),
     duration |-> <<frames, rate>>,
     sample_rate |-> rate,
     format |-> req.format,
     file_size |-> frames,
     voice_used |-> req.voice_id,
     metadata |-> [cached |-> FALSE, text_length |-> Len(tts_preprocess_text(req.text))]]

engine_call(req, engine) ==
    [engine |-> "tts", text |-> tts_preprocess_text(req.text), outcome |-> engine.kind]

\* generate_speech: the TTSResponse or the HTTPException it raises, the
\* engine invocations made, and the two directories afterwards
generate_speech(req, cache, out, engine) ==
    IF exists(cache, cache_file(req))
    THEN [raised |-> FALSE, value |-> cached_speech(req, file_at(cache, cache_file(req))),
          calls |-> <<>>, cache_dir |-> cache, output_dir |-> out]
    ELSE IF engine.kind = "raise"
    THEN [raised |-> TRUE,
          value |-> HTTPException(500, <<"Speech generation failed">>),
          calls |-> <<engine_call(req, engine)>>, cache_dir |-> cache, output_dir |-> out]
    ELSE [raised |-> FALSE,
          value |-> generated_speech(req, postprocess_audio(engine.frames, req.speed),
                                     write_rate(req, engine)),
          calls |-> <<engine_call(req, engine)>>,
          cache_dir |-> write_file(cache,
                            speech_file(req, postprocess_audio(engine.frames, req.speed),
                                        write_rate(req, engine))),
          output_dir |-> write_file(out,
                             [name |-> output_path(req), frames |-> engine.frames,
                              samplerate |-> engine.sample_rate, size |-> engine.frames])]

\* a handler that answers before it touches a file
Answered(resp, cache, out) ==
    [response |-> resp, calls |-> <<>>, cache_dir |-> cache, output_dir |-> out]

\* return await generate_speech(request)
speech_result(r) ==
    [response |-> IF r.raised THEN r.value ELSE OK(r.value), calls |-> r.calls,
     cache_dir |-> r.cache_dir, output_dir |-> r.output_dir]

\* POST /tts: the handler; req is the validated TTSRequest
text_to_speech(loaded, req, cache, out, engine) ==
    IF ~loaded
    THEN Answered(HTTPException(503, <<"TTS model not loaded yet">>), cache, out)
    ELSE IF Len(req.text) > MAX_TEXT_LENGTH
    THEN Answered(HTTPException(400, <<"Text too long">>), cache, out)
    ELSE speech_result(generate_speech(req, cache, out, engine))

\* (mutation) the tasks that follow a failed one are cancelled before they run
gather_step_cancelling(acc, r) ==
    IF \E i \in DOMAIN acc.results : acc.results[i].raised
    THEN [results |-> Append(acc.results,
                             [raised |-> TRUE,
                              value |-> HTTPException(500, <<"Speech generation failed">>),
                              calls |-> <<>>, cache_dir |-> acc.cache_dir,
                              output_dir |-> acc.output_dir]),
          cache_dir |-> acc.cache_dir, output_dir |-> acc.output_dir]
    ELSE [results |-> Append(acc.results, r), cache_dir |-> r.cache_dir,
          output_dir |-> r.output_dir]

\* asyncio.gather over the generate_speech coroutines: generate_speech has no
\* await, so the tasks run one after the other, in the order of the list
gather_step(acc, r) ==
    [results |-> Append(acc.results, r), cache_dir |-> r.cache_dir,
     output_dir |-> r.output_dir]

RECURSIVE gather_speech(_, _, _, _)
gather_speech(requests, engines, i, acc) ==
    IF i > Len(requests) THEN acc
    ELSE gather_speech(requests, engines, i + 1,
             gather_step(acc, generate_speech(requests[i], acc.cache_dir, acc.output_dir,
                                              engines[i])))

\* the lowest index whose result is an exception (0-based, as in the detail)
first_failed(results) ==
    (CHOOSE i \in DOMAIN results :
        results[i].raised /\ \A j \in 1..(i - 1) : ~results[j].raised) - 1

\* the loop over the gathered results
batch_speech_result(g) ==
    [response |-> IF \E i \in DOMAIN g.results : g.results[i].raised
                  THEN HTTPException(500, <<"Failed to process text",
                                             DigitChar[first_failed(g.results) + 1]>>)
                  ELSE OK([i \in DOMAIN g.results |-> g.results[i].value]),
     calls |-> [i \in DOMAIN g.results |-> g.results[i].calls],
     cache_dir |-> g.cache_dir,
     output_dir |-> g.output_dir]

\* POST /tts/batch: the handler; every TTSRequest is built before the first
\* coroutine runs, and a ValidationError raised there is caught by nobody
batch_text_to_speech(loaded, body, cache, out, engines) ==
    IF ~loaded
    THEN Answered(HTTPException(503, <<"TTS model not loaded yet">>), cache, out)
    ELSE IF Len(body.texts) > 5
    THEN Answered(HTTPException(400, <<"Maximum 5 texts per batch">>), cache, out)
    ELSE IF \E i \in DOMAIN body.texts : TTSRequest_errors(TTSMeasures(BatchItem(body, i))) # {}
    THEN Answered(UnhandledError("ValidationError"), cache, out)
    ELSE batch_speech_result(
             gather_speech([i \in DOMAIN body.texts |-> TTSRequest(BatchItem(body, i))],
                           engines, 1,
                           [results |-> <<>>, cache_dir |-> cache, output_dir |-> out]))

(***************************************************************************)
(* The speech process.                                                      *)
(***************************************************************************)
SpeechText == <<"H","i","."," ","O","k">>

\* the same text with leading, trailing and repeated internal whitespace
SpacedSpeechText == <<" ","H","i","."," "," ","O","k"," ">>

TTSTexts == {SpeechText, SpacedSpeechText, <<>>, <<" ">>}

VoiceIds == {DefaultVoice, MaleVoice}

\* speeds in tenths: 1.0, 1.5 and, outside the declared range, 2.5
Speeds == {10, 15, 25}

TTSBodies ==
    [text : TTSTexts, voice_id : VoiceIds, speed : Speeds, pitch : {10}, volume : {10},
     sample_rate : {Some(22050)}, format : {Wav}]

BatchTexts == {SpeechText, SpacedSpeechText, <<>>}

BatchTTSBodies(n) ==
    [texts : [1..n -> BatchTexts], voice_id : {DefaultVoice}, speed : {10, 25}]

\* what a request that generated an artifact adds to the history
Generated(body, resp) ==
    IF resp.status = 200 /\ ~resp.body.metadata.cached
    THEN {[body |-> body, response |-> resp.body]}
    ELSE {}

\* the request is answered and the directories are as the handler leaves
\* them; a request that is refused before the handler runs leaves them alone
AnswerDisk(endpoint, token, body, answer) ==
    /\ Answer(endpoint, token, body, answer)
    /\ cache_dir' = IF "cache_dir" \in DOMAIN answer THEN answer.cache_dir ELSE cache_dir
    /\ output_dir' = IF "output_dir" \in DOMAIN answer THEN answer.output_dir ELSE output_dir

\* TTSManager.load_model, on startup
load_model ==
    /\ service = "tts"
    /\ request = NoRequest
    /\ ~is_loaded
    /\ is_loaded' = TRUE
    /\ UNCHANGED <<service, textVars, request, response, calls, diskVars, videoVars>>

TextToSpeech ==
    /\ service = "tts"
    /\ request = NoRequest
    /\ \E token \in Tokens, body \in TTSBodies, engine \in EngineOutcomes :
          /\ AnswerDisk("/tts", token, body,
                        Route(token, TTSRequest_errors(TTSMeasures(body)),
                              text_to_speech(is_loaded, TTSRequest(body), cache_dir,
                                             output_dir, engine)))
          /\ populated' = populated \cup Generated(body, response')
    /\ UNCHANGED <<service, textVars, is_loaded, videoVars>>

BatchTextToSpeech ==
    /\ service = "tts"
    /\ request = NoRequest
    /\ \E token \in Tokens, n \in 0..MaxBatch :
          \E body \in BatchTTSBodies(n), engines \in [1..n -> EngineOutcomes] :
              AnswerDisk("/tts/batch", token, body,
                         Route(token, BatchTTSRequest_errors(BatchTTSMeasures(body)),
                               batch_text_to_speech(is_loaded, body, cache_dir, output_dir,
                                                    engines)))
    /\ UNCHANGED <<service, textVars, is_loaded, populated, videoVars>>

InitTTS == service = "tts" /\ InitServices

NextTTS == load_model \/ TextToSpeech \/ BatchTextToSpeech \/ Discard

SpecTTS == InitTTS /\ [][NextTTS]_vars

(***************************************************************************)
(* video-pipeline/src/main.py                                               *)
(***************************************************************************)
\* hashlib.md5(content.encode()).hexdigest()
generate_cache_key(content) == md5(content)

\* the name of a file: f"{prefix}{cache_key}{suffix}"
FileName(prefix, key, suffix) == [prefix |-> prefix, key |-> key, suffix |-> suffix]

\* the VideoRenderRequest pydantic builds from a body that passes validation:
\* validate_summary returns v.strip()
VideoRenderRequest(b) == [b EXCEPT !.summary_text = strip(b.summary_text)]

\* a /render body as the validators measure it
VideoMeasures(b) ==
    [summary_text |-> Measure(b.summary_text), title |-> Measure(b.title),
     duration |-> b.duration]

\* a /thumbnail body as the validators measure it
ThumbnailMeasures(b) ==
    [title |-> Measure(b.title),
     subtitle |-> IF b.subtitle = None THEN None ELSE Some(Measure(b.subtitle[1]))]

\* generate_cache_key(f"{request.summary_text}_{request.audio_url}_{request.theme}")
render_key(req) ==
    generate_cache_key(req.summary_text \o <<"_">> \o req.audio_url \o <<"_">> \o req.theme)

\* Path(config.OUTPUT_DIR) / f"{cache_key}.mp4"
video_path(req) == FileName("", render_key(req), ".mp4")

thumbnail_path(req) == FileName("", render_key(req), "_thumb.jpg")

subtitle_path(req) == FileName("", render_key(req), ".srt")

\* Path(config.CACHE_DIR) / f"audio_{cache_key}.wav"
audio_temp_path(req) == FileName("audio_", render_key(req), ".wav")

\* f"/video/{name}"
video_url(name) == [route |-> "/video/", file |-> name]

\* the VideoResponse of a cache hit, read from the file found
cached_video(req, f, has_subtitles) ==
    [video_url |-> video_url(video_path(req)),
     thumbnail_url |-> video_url(thumbnail_path(req)),
     subtitle_url |-> IF has_subtitles THEN Some(video_url(subtitle_path(req))) ELSE None,
     duration |-> f.duration,
     file_size |-> f.size,
     metadata |-> [cached |-> TRUE]]

\* the VideoResponse of a cache miss
rendered_video(req, video_duration, images_used) ==
    [video_url |-> video_url(video_path(req)),
     thumbnail_url |-> video_url(thumbnail_path(req)),
     subtitle_url |-> Some(video_url(subtitle_path(req))),
     duration |-> video_duration,
     file_size |-> video_duration,
     metadata |-> [cached |-> FALSE, theme |-> req.theme, images_used |-> images_used]]

\* generate_video up to its first await: the cached response when the video
\* file exists, and otherwise no response yet
generate_video_start(req, out) ==
    IF exists(out, video_path(req))
    THEN [response |-> OK(cached_video(req, file_at(out, video_path(req)),
                                       exists(out, subtitle_path(req)))),
          calls |-> <<>>]
    ELSE [response |-> NoResponse, calls |-> <<>>]

\* what a download does: the file is fetched (an audio file has a duration)
\* or the request fails
DownloadOutcomes == { [kind |-> "ok", duration |-> 8], [kind |-> "fail", duration |-> 0] }

\* what the writes of the render do: all succeed ("ok"), write_videofile
\* raises ("raise"), thumbnail_image.save raises after the video file was
\* written ("thumbnail_raise"), or subs.save raises ("srt_raise")
RenderOutcomes == {"ok", "raise", "thumbnail_raise", "srt_raise"}

download_call(url, dl) == [kind |-> "download", url |-> url, outcome |-> dl.kind]

render_call(req, rnd) == [kind |-> "render", file |-> video_path(req), outcome |-> rnd]

\* except Exception in generate_video: every exception, an HTTPException of
\* download_file included, becomes a 500
VideoFailed(detail) == HTTPException(500, <<"Video generation failed", detail>>)

\* request.duration or audio_clip.duration
video_duration(req, audio) ==
    IF req.duration = None THEN audio.duration ELSE req.duration[1]

\* the request inside download_file(request.audio_url, audio_temp_path),
\* after client.get and the write of the file: the download has failed, or
\* the file is written and the request is suspended until the file is closed
audio_written(p, dl) ==
    [p EXCEPT !.pc = IF dl.kind = "fail" THEN "failed" ELSE "audio_written",
              !.calls = Append(p.calls, download_call(p.req.audio_url, dl))]

\* the request after await download_file(request.audio_url, audio_temp_path)
\* returned: AudioFileClip(str(audio_temp_path)) raises when the file is not
\* there; otherwise the request goes on to download its first image, or to
\* render
audio_downloaded(p, cache) ==
    IF ~exists(cache, audio_temp_path(p.req))
    THEN [p EXCEPT !.pc = "failed"]
    ELSE [p EXCEPT !.pc = IF p.req.images = <<>> THEN "render" ELSE "image",
                   !.video_duration =
                       video_duration(p.req, file_at(cache, audio_temp_path(p.req)))]

\* the request after the await download_file of process_images returned or
\* raised for image p.image: a failed image is skipped; at most 5 are used
image_downloaded(p, dl) ==
    [p EXCEPT !.pc = IF p.image < Min(Len(p.req.images), 5) THEN "image" ELSE "render",
              !.image = p.image + 1,
              !.images_used = p.images_used + (IF dl.kind = "ok" THEN 1 ELSE 0),
              !.calls = Append(p.calls, download_call(p.req.images[p.image], dl))]

\* str.split(c): the pieces of s between the occurrences of the character c
split_at(s, c) ==
    LET seps == Indices(Len(s), LAMBDA i : s[i] = c)
    IN  [k \in 1..(Len(seps) + 1) |->
            SubSeq(s, (IF k = 1 THEN 0 ELSE seps[k - 1]) + 1,
                      (IF k > Len(seps) THEN Len(s) + 1 ELSE seps[k]) - 1)]

\* the non-empty stripped pieces of a list of pieces
stripped_pieces(parts) ==
    SelectSeq([k \in DOMAIN parts |-> strip(parts[k])], LAMBDA x : x # <<>>)

\* create_srt_subtitles: text.replace('!', '.').replace('?', '.').split('.'),
\* stripped, the empty ones dropped
srt_sentences(txt) ==
    stripped_pieces(split_at(replace(replace(txt, <<"!">>, <<".">>), <<"?">>, <<".">>), "."))

\* min((i + 1) * time_per_sentence, audio_duration), in n-ths of a second
slot_end(i, n, audio_duration) == Min((i + 1) * audio_duration, n * audio_duration)

\* (mutation) the subtitle file keeps the sentences of three characters
srt_keeps_short(sentence) == Len(sentence) >= 3

\* create_srt_subtitles: if len(sentence) > 3
srt_keeps(sentence) == Len(sentence) > 3

\* create_subtitle_clips: the clips, in the order the loop appends them; a
\* clip starts at i * time_per_sentence, in n-ths of a second.  An exception
\* of TextClip is caught around the whole function, which then returns []
create_subtitle_clips(txt, audio_duration, outcome) ==
    IF outcome = "raise"
    THEN <<>>
    ELSE SelectSeq([k \in DOMAIN srt_sentences(txt) |->
                       [text |-> srt_sentences(txt)[k],
                        slot |-> k - 1,
                        start |-> Ratio((k - 1) * audio_duration, Len(srt_sentences(txt))),
                        end |-> Ratio(slot_end(k - 1, Len(srt_sentences(txt)), audio_duration),
                                      Len(srt_sentences(txt)))]],
                  LAMBDA c : Len(c.text) > 3)

\* create_srt_subtitles: the items appended to subs, with the start and end
\* handed to SubRipTime(seconds=...)
srt_items(txt, audio_duration) ==
    SelectSeq([k \in DOMAIN srt_sentences(txt) |->
                  [text |-> srt_sentences(txt)[k],
                   slot |-> k - 1,
                   start |-> Ratio((k - 1) * audio_duration, Len(srt_sentences(txt))),
                   end |-> Ratio(slot_end(k - 1, Len(srt_sentences(txt)), audio_duration),
                                 Len(srt_sentences(txt)))]],
              LAMBDA c : srt_keeps(c.text))

\* create_srt_subtitles: it returns without a file when the text has no
\* sentence, and an exception of subs.save is logged and dropped
create_srt_subtitles(out, req, rnd) ==
    IF srt_sentences(req.summary_text) = <<>> \/ rnd = "srt_raise"
    THEN out
    ELSE write_file(out, [name |-> subtitle_path(req), duration |-> 0, size |-> 1])

\* final_video.write_videofile(str(video_path), ...)
write_videofile(out, req, duration) ==
    write_file(out, [name |-> video_path(req), duration |-> duration, size |-> duration])

\* thumbnail_image.save(str(thumbnail_path), "JPEG", quality=85)
save_thumbnail(out, req) ==
    write_file(out, [name |-> thumbnail_path(req), duration |-> 0, size |-> 1])

\* the files write_videofile, thumbnail_image.save and create_srt_subtitles
\* write
rendered_files(out, req, duration, rnd) ==
    create_srt_subtitles(save_thumbnail(write_videofile(out, req, duration), req), req, rnd)

\* generate_video from the composition of the clips to its return: no await
render(p, rnd, cache, out) ==
    IF rnd = "raise"
    THEN [response |-> VideoFailed("render"),
          calls |-> Append(p.calls, render_call(p.req, rnd)),
          cache_dir |-> cache, output_dir |-> out]
    ELSE IF rnd = "thumbnail_raise"
    THEN [response |-> VideoFailed("thumbnail"),
          calls |-> Append(p.calls, render_call(p.req, rnd)),
          cache_dir |-> cache,
          output_dir |-> write_videofile(out, p.req, p.video_duration)]
    ELSE [response |-> OK(rendered_video(p.req, p.video_duration, p.images_used)),
          calls |-> Append(p.calls, render_call(p.req, rnd)),
          cache_dir |-> unlink(cache, audio_temp_path(p.req)),
          output_dir |-> rendered_files(out, p.req, p.video_duration, rnd)]

\* generate_cache_key(f"{request.title}_{request.theme}_{request.layout}")
thumbnail_key(req) ==
    generate_cache_key(req.title \o <<"_">> \o req.theme \o <<"_">> \o req.layout)

\* generate_thumbnail: the image is drawn and saved whatever the directory
\* holds
generate_thumbnail(req, cache, out, outcome) ==
    IF outcome = "raise"
    THEN [response |-> HTTPException(500, <<"Thumbnail generation failed">>),
          calls |-> <<>>, cache_dir |-> cache, output_dir |-> out]
    ELSE [response |-> OK([thumbnail_url |->
                               video_url(FileName("thumb_", thumbnail_key(req), ".jpg")),
                           file_size |-> IF req.subtitle = None THEN 1 ELSE 2,
                           format |-> "JPEG"]),
          calls |-> <<>>,
          cache_dir |-> cache,
          output_dir |-> write_file(out,
                             [name |-> FileName("thumb_", thumbnail_key(req), ".jpg"),
                              duration |-> 0,
                              size |-> IF req.subtitle = None THEN 1 ELSE 2])]

(***************************************************************************)
(* The video process.  generate_video is suspended at each download; the   *)
(* requests in flight are the elements of procs, in order of arrival.       *)
(***************************************************************************)
MaxReq == 3

\* the requests that may be suspended at once: two, and one while the model
\* has no more than two requests
MaxInFlight == Min(MaxReq - 1, 2)

SummaryText == <<"G","o","o","d"," ","n","e","w","s"," ","t","o","d","a","y",".">>

\* the same summary with repeated internal whitespace
SpacedSummaryText == <<"G","o","o","d"," "," ","n","e","w","s"," ","t","o","d","a","y",".">>

\* a summary of ten characters that holds no sentence
MarksSummaryText == <<"?","!",".",".",".","?","!",".",".",".">>

AudioUrl == <<"h","t","t","p",":","/","/","a">>

ImageUrl == <<"h","t","t","p",":","/","/","i">>

Modern == <<"m","o","d","e","r","n">>

VideoTitle == <<"D","a","i","l","y">>

BaseVideoBody ==
    [summary_text |-> SummaryText, audio_url |-> AudioUrl, title |-> VideoTitle,
     theme |-> Modern, duration |-> None, images |-> <<>>]

\* the base request and its variations in one field
VideoBodies ==
    { BaseVideoBody,
      [BaseVideoBody EXCEPT !.summary_text = SpacedSummaryText],
      [BaseVideoBody EXCEPT !.summary_text = MarksSummaryText],
      [BaseVideoBody EXCEPT !.duration = Some(10), !.images = <<ImageUrl>>] }

ThumbnailBodies ==
    [title : {VideoTitle}, subtitle : {None, Some(<<"n","e","w","s">>)},
     theme : {Modern}, layout : {<<"d","e","f","a","u","l","t">>}]

\* a request suspended at its first await
Suspended(token, body) ==
    [token |-> token, body |-> body, req |-> VideoRenderRequest(body), pc |-> "audio",
     image |-> 1, images_used |-> 0, video_duration |-> 0, calls |-> <<>>,
     known |-> populated]

Remove(seq, i) == SubSeq(seq, 1, i - 1) \o SubSeq(seq, i + 1, Len(seq))

\* a /render request arrives: it is refused, answered from the cache, or
\* suspended at the download of its audio file
Arrive(token, body, answer) ==
    IF answer.response = NoResponse
    THEN /\ Len(procs) < MaxInFlight
         /\ procs' = Append(procs, Suspended(token, body))
         /\ UNCHANGED <<request, response, calls>>
    ELSE /\ Answer("/render", token, body, answer)
         /\ procs' = procs

RenderVideo ==
    /\ service = "video"
    /\ request = NoRequest
    /\ nreq < MaxReq
    /\ nreq' = nreq + 1
    /\ \E token \in Tokens, body \in VideoBodies :
          Arrive(token, body,
                 Route(token, VideoRenderRequest_errors(VideoMeasures(body)),
                       generate_video_start(VideoRenderRequest(body), output_dir)))
    /\ UNCHANGED <<service, textVars, is_loaded, diskVars>>

\* the request of procs[i] is answered and leaves
Complete(i, p, answer) ==
    /\ request = NoRequest
    /\ request' = [endpoint |-> "/render", token |-> p.token, body |-> p.body,
                   known |-> p.known]
    /\ response' = answer.response
    /\ calls' = answer.calls
    /\ cache_dir' = answer.cache_dir
    /\ output_dir' = answer.output_dir
    /\ populated' = populated \cup Generated(p.body, answer.response)
    /\ procs' = Remove(procs, i)

\* the request of procs[i] goes on after an await: p is the request as the
\* await leaves it, cache the cache directory as the download leaves it
Resume(i, p, rnd, cache) ==
    IF p.pc \in {"audio_written", "image"}
    THEN /\ procs' = [procs EXCEPT ![i] = p]
         /\ cache_dir' = cache
         /\ UNCHANGED <<request, response, calls, output_dir, populated>>
    ELSE IF p.pc = "failed"
    THEN Complete(i, p, [response |-> VideoFailed("download"), calls |-> p.calls,
                         cache_dir |-> cache, output_dir |-> output_dir])
    ELSE Complete(i, p, render(p, rnd, cache, output_dir))

\* download_file wrote the file, or wrote nothing
downloaded(cache, name, dl) ==
    IF dl.kind = "ok"
    THEN write_file(cache, [name |-> name, duration |-> dl.duration, size |-> 1])
    ELSE cache

\* download_file(request.audio_url, audio_temp_path): client.get returns
\* and the file is written, or the download raises
AudioWritten ==
    /\ service = "video"
    /\ \E i \in DOMAIN procs, dl \in DownloadOutcomes, rnd \in RenderOutcomes :
          /\ procs[i].pc = "audio"
          /\ Resume(i, audio_written(procs[i], dl), rnd,
                    downloaded(cache_dir, audio_temp_path(procs[i].req), dl))
    /\ UNCHANGED <<service, textVars, is_loaded, nreq>>

\* await download_file(request.audio_url, audio_temp_path) returns
AudioDownloaded ==
    /\ service = "video"
    /\ \E i \in DOMAIN procs, rnd \in RenderOutcomes :
          /\ procs[i].pc = "audio_written"
          /\ Resume(i, audio_downloaded(procs[i], cache_dir), rnd, cache_dir)
    /\ UNCHANGED <<service, textVars, is_loaded, nreq>>

\* await download_file(url, temp_path) of process_images returns or raises;
\* the temp image is deleted again before the next await
ImageDownloaded ==
    /\ service = "video"
    /\ \E i \in DOMAIN procs, dl \in DownloadOutcomes, rnd \in RenderOutcomes :
          /\ procs[i].pc = "image"
          /\ Resume(i, image_downloaded(procs[i], dl), rnd, cache_dir)
    /\ UNCHANGED <<service, textVars, is_loaded, nreq>>

\* POST /thumbnail: generate_thumbnail has no await
CreateThumbnail ==
    /\ service = "video"
    /\ request = NoRequest
    /\ nreq < MaxReq
    /\ nreq' = nreq + 1
    /\ \E token \in Tokens, body \in ThumbnailBodies, outcome \in RenderOutcomes :
          AnswerDisk("/thumbnail", token, body,
                     Route(token, ThumbnailRequest_errors(ThumbnailMeasures(body)),
                           generate_thumbnail(body, cache_dir, output_dir, outcome)))
    /\ UNCHANGED <<service, textVars, is_loaded, populated, procs>>

InitVideo == service = "video" /\ InitServices

NextVideo ==
    RenderVideo \/ AudioWritten \/ AudioDownloaded \/ ImageDownloaded \/ CreateThumbnail
        \/ Discard

SpecVideo == InitVideo /\ [][NextVideo]_vars

(***************************************************************************)
(* The three services, each on its own.                                     *)
(***************************************************************************)
InitAll == service \in {"summarizer", "tts", "video"} /\ InitServices

NextAll == NextSummarizer \/ NextTTS \/ NextVideo

SpecAll == InitAll /\ [][NextAll]_vars

(***************************************************************************)
(* Properties of the services.                                              *)
(***************************************************************************)
\* the body of the request being answered violates a declared constraint of
\* its model, or of the per-item model the handler builds
ConstraintViolated ==
    CASE request.endpoint = "/summarize" ->
            SummarizeRequest_errors(SummarizeMeasures(request.body)) # {}
      [] request.endpoint = "/summarize/batch" ->
            BatchSummarizeRequest_errors(BatchSummarizeMeasures(request.body)) # {}
      [] request.endpoint = "/tts" -> TTSRequest_errors(TTSMeasures(request.body)) # {}
      [] request.endpoint = "/tts/batch" ->
            \/ BatchTTSRequest_errors(BatchTTSMeasures(request.body)) # {}
            \/ \E i \in DOMAIN request.body.texts :
                  TTSRequest_errors(TTSMeasures(BatchItem(request.body, i))) # {}
      [] request.endpoint = "/render" ->
            VideoRenderRequest_errors(VideoMeasures(request.body)) # {}
      [] request.endpoint = "/thumbnail" ->
            ThumbnailRequest_errors(ThumbnailMeasures(request.body)) # {}
      [] OTHER -> FALSE

\* the request being answered named the secret and its body is valid
Admitted == verify_internal_token(request.token) /\ ~ConstraintViolated

\* two bodies agree on the fields the cache key is made of
SameKeyFields(endpoint, b1, b2) ==
    IF endpoint = "/tts"
    THEN /\ tts_preprocess_text(normalize_whitespace(b1.text))
               = tts_preprocess_text(normalize_whitespace(b2.text))
         /\ b1.voice_id = b2.voice_id
         /\ b1.speed = b2.speed
         /\ b1.format = b2.format
    ELSE /\ b1.summary_text = b2.summary_text
         /\ b1.audio_url = b2.audio_url
         /\ b1.theme = b2.theme

\* the URL of the artifact a success response carries
ArtifactUrl(endpoint, body) == IF endpoint = "/tts" THEN body.audio_url ELSE body.video_url

\* the response being given is a cache hit on the artifact of the earlier
\* response: same URL, cached, same duration and size, nothing invoked
HitOn(earlier) ==
    /\ response.status = 200
    /\ response.body.metadata.cached
    /\ ArtifactUrl(request.endpoint, response.body) = ArtifactUrl(request.endpoint, earlier)
    /\ response.body.duration = earlier.duration
    /\ response.body.file_size = earlier.file_size
    /\ calls = <<>>

\* C1: once a /tts (or /render) request has completed successfully and
\* written its artifact, every valid request that arrives later with the same
\* cache-key fields is answered from the cache: same artifact URL,
\* cached = true, the same duration and size, and no engine or renderer
\* invocation.
C1_CacheHitAfterPopulate ==
    (request.endpoint \in {"/tts", "/render"} /\ Admitted) =>
        \A p \in request.known :
            SameKeyFields(request.endpoint, p.body, request.body) => HitOn(p.response)

\* the same statement for the speech service alone
C1_SpeechHitAfterPopulate ==
    (request.endpoint = "/tts" /\ Admitted) =>
        \A p \in request.known :
            SameKeyFields(request.endpoint, p.body, request.body) => HitOn(p.response)

\* C4: on every mutating endpoint a request whose token differs from the
\* secret is answered 401, and answering it invokes no model, engine or
\* renderer, starts no download and leaves both directories as they were;
\* no request with such a token is ever in flight.
C4_SecretGate ==
    [][/\ (request = NoRequest /\ request' # NoRequest
              /\ request'.token # INTERNAL_SECRET) =>
              /\ response'.status = 401
              /\ calls' = <<>>
              /\ cache_dir' = cache_dir
              /\ output_dir' = output_dir
       /\ \A i \in DOMAIN procs' : procs'[i].token = INTERNAL_SECRET]_vars

C4_Witness ==
    /\ request.endpoint = "/render"
    /\ request.token # INTERNAL_SECRET
    /\ response.status = 401
    /\ output_dir # {}
    /\ procs # <<>>

\* the service that answers has loaded its models (the video service has
\* none to load)
Ready == service = "video" \/ is_loaded

\* C5: on every mutating endpoint of a service that is ready, a body that
\* violates a declared field constraint, the constraints of the per-item
\* requests built inside the batch handlers included, is answered with a 4xx
\* status, never a 5xx.
C5_ValidationIsClientError ==
    (request # NoRequest /\ Ready /\ ConstraintViolated) => response.status \in 400..499

\* the items of the /tts/batch request being answered whose speech
\* generation failed
FailedItems ==
    {i \in DOMAIN calls : calls[i] # <<>> /\ calls[i][1].outcome = "raise"}

\* the response has one entry per text, entry i for text i
OneEntryPerText ==
    /\ response.status = 200
    /\ Len(response.body) = Len(request.body.texts)
    /\ \A i \in DOMAIN request.body.texts :
          response.body[i].audio_url = audio_url(TTSRequest(BatchItem(request.body, i)))

\* the response is a 500 that names the lowest failing index and no list
FailsNamingFirst ==
    /\ response.status = 500
    /\ "body" \notin DOMAIN response
    /\ \E i \in FailedItems :
          /\ \A j \in FailedItems : i <= j
          /\ response.detail = <<"Failed to process text", DigitChar[i]>>

\* C7: a /tts/batch request (authorised, at most 5 texts, model loaded) none
\* of whose items fails in speech generation is answered with one entry per
\* text in input order; when some item's speech generation fails the answer
\* is a 500 naming the lowest failing index, without a partial list.
C7_AllOrNothing ==
    (/\ request.endpoint = "/tts/batch"
     /\ verify_internal_token(request.token)
     /\ BatchTTSRequest_errors(BatchTTSMeasures(request.body)) = {}
     /\ is_loaded) =>
        IF FailedItems = {} THEN OneEntryPerText ELSE FailsNamingFirst

\* the same statement for the batches whose every text passes the
\* validation of TTSRequest
C7_AllOrNothingValidItems ==
    (/\ request.endpoint = "/tts/batch"
     /\ Admitted
     /\ is_loaded) =>
        IF FailedItems = {} THEN OneEntryPerText ELSE FailsNamingFirst

\* ' '.join(text.split()): the text without its incidental whitespace
Collapsed(txt) == join(<<" ">>, split(txt))

\* two bodies differ at most in incidental whitespace of their text field
\* and agree on the other fields of the key
SameUpToWhitespace(endpoint, b1, b2) ==
    IF endpoint = "/tts"
    THEN /\ Collapsed(b1.text) = Collapsed(b2.text)
         /\ b1.voice_id = b2.voice_id
         /\ b1.speed = b2.speed
         /\ b1.format = b2.format
    ELSE /\ Collapsed(b1.summary_text) = Collapsed(b2.summary_text)
         /\ b1.audio_url = b2.audio_url
         /\ b1.theme = b2.theme

\* C8: in the speech and in the render service, a valid request that differs
\* from an earlier successful one only in leading, trailing or repeated
\* internal whitespace of its text gets the same cache key and is served the
\* earlier request's cache entry.
C8_WhitespaceSameEntry ==
    (request.endpoint \in {"/tts", "/render"} /\ Admitted) =>
        \A p \in request.known :
            SameUpToWhitespace(request.endpoint, p.body, request.body) =>
                /\ response.status = 200
                /\ response.body.metadata.cached
                /\ ArtifactUrl(request.endpoint, response.body)
                      = ArtifactUrl(request.endpoint, p.response)

\* the same statement for the speech service alone
C8_SpeechWhitespaceSameEntry ==
    (request.endpoint = "/tts" /\ Admitted) =>
        \A p \in request.known :
            SameUpToWhitespace(request.endpoint, p.body, request.body) =>
                /\ response.status = 200
                /\ response.body.metadata.cached
                /\ ArtifactUrl(request.endpoint, response.body)
                      = ArtifactUrl(request.endpoint, p.response)

\* GET /video/{filename}: the status of the answer
get_video_file(out, filename) == IF ~exists(out, filename) THEN 404 ELSE 200

\* GET /audio/{filename}: the cache directory, then the output directory
get_audio_file(cache, out, filename) ==
    IF ~exists(cache, filename) /\ ~exists(out, filename) THEN 404 ELSE 200

\* the file names the URLs of a success body of the endpoint carry
UrlFiles(endpoint, body) ==
    IF endpoint = "/render"
    THEN {body.video_url.file, body.thumbnail_url.file}
             \cup {body.subtitle_url[i].file : i \in DOMAIN body.subtitle_url}
    ELSE IF endpoint = "/thumbnail" THEN {body.thumbnail_url.file}
    ELSE {Tail(body.audio_url)}

\* the GET endpoint of the service serves the file
Served(endpoint, filename) ==
    IF endpoint = "/tts"
    THEN get_audio_file(cache_dir, output_dir, filename) = 200
    ELSE get_video_file(output_dir, filename) = 200

\* C11: every artifact URL of a success response of /tts, /render (cache
\* miss and cache hit) and /thumbnail names a file that the matching GET
\* endpoint serves when the response is produced.
C11_UrlsResolve ==
    (request.endpoint \in {"/tts", "/render", "/thumbnail"} /\ response.status = 200) =>
        \A f \in UrlFiles(request.endpoint, response.body) : Served(request.endpoint, f)

\* the same statement for the speech service and for /thumbnail
C11_SpeechAndThumbnailUrlsResolve ==
    (request.endpoint \in {"/tts", "/thumbnail"} /\ response.status = 200) =>
        \A f \in UrlFiles(request.endpoint, response.body) : Served(request.endpoint, f)

\* the artifact files of a directory of the service: the speech cache
\* files, the rendered videos and the thumbnails of /thumbnail
Artifacts(svc, cache, out) ==
    IF svc = "tts" THEN cache
    ELSE IF svc = "video"
    THEN {f \in out : f.name.suffix = ".mp4" \/ f.name.prefix = "thumb_"}
    ELSE {}

\* C12: once the artifact file of a cache key has been written, no step
\* replaces it: the file of that name is the same file in the next state
\* (speech cache, render output and thumb_<key>.jpg).
C12_WriteOnce ==
    [][\A f \in Artifacts(service, cache_dir, output_dir) :
          f \in Artifacts(service, cache_dir', output_dir')]_vars

\* the same statement for the speech cache alone
C12_SpeechWriteOnce ==
    [][service = "tts" => \A f \in cache_dir : f \in cache_dir']_vars

\* summarizer/main.py calculate_content_hash: no function calls it
calculate_content_hash(content) == md5(content)

\* C13: a /summarize request with the same title and content as an earlier
\* request that was answered with a summary is answered with a summary
\* without an invocation of the primary or of the fallback model.
C13_SummaryCached ==
    (request.endpoint = "/summarize" /\ Admitted /\ is_loaded) =>
        \A p \in request.known :
            (/\ p.body.title = request.body.title
             /\ calculate_content_hash(p.body.content)
                   = calculate_content_hash(request.body.content)) =>
                (response.status = 200 /\ calls = <<>>)

\* the downloads among the calls made for the request being answered
Downloads == SelectSeq(calls, LAMBDA c : c.kind = "download")

\* the renders among the calls made for the request being answered
Renders == SelectSeq(calls, LAMBDA c : c.kind = "render")

\* C19: in a /render request the audio file and each image are downloaded at
\* most once, and a failed download or a failed write of a file makes the
\* request fail
C19_IOFailureFails ==
    (request.endpoint = "/render" /\ Admitted) =>
        /\ Len(Downloads) <= 1 + Len(request.body.images)
        /\ \A i, j \in DOMAIN Downloads :
              Downloads[i].url = Downloads[j].url => i = j
        /\ (\/ \E i \in DOMAIN Downloads : Downloads[i].outcome = "fail"
            \/ \E i \in DOMAIN Renders : Renders[i].outcome # "ok") =>
               response.status # 200

\* the same statement for the audio file and for the writes of the video
\* file and of the thumbnail
C19_AudioAndVideoFailureFails ==
    (request.endpoint = "/render" /\ Admitted) =>
        /\ Len(Downloads) <= 1 + Len(request.body.images)
        /\ \A i, j \in DOMAIN Downloads :
              Downloads[i].url = Downloads[j].url => i = j
        /\ (\/ Downloads # <<>> /\ Downloads[1].outcome = "fail"
            \/ \E i \in DOMAIN Renders : Renders[i].outcome \in {"raise", "thumbnail_raise"}) =>
               response.status # 200

\* C20: a /render request whose own downloads and writes all succeed is
\* answered 200 whatever a request with the same cache key does in between
\* (it does not fail because that request removed the shared audio temp
\* file), and exactly one video file exists for the key afterwards
C20_SameKeyMissesTolerated ==
    (/\ request.endpoint = "/render"
     /\ Admitted
     /\ Downloads # <<>>
     /\ Downloads[1].outcome = "ok"
     /\ \A i \in DOMAIN Renders : Renders[i].outcome \notin {"raise", "thumbnail_raise"}) =>
        /\ response.status = 200
        /\ Cardinality({f \in output_dir :
                            f.name = video_path(VideoRenderRequest(request.body))}) = 1

\* the endpoints of the summarization and speech services that invoke a
\* provider
ProviderEndpoints == {"/summarize", "/summarize/batch", "/tts", "/tts/batch"}

\* is_loaded changes only in the startup load, from false to true
LoadedOnlyByStartup ==
    is_loaded' # is_loaded =>
        /\ ~is_loaded
        /\ is_loaded'
        /\ request = NoRequest
        /\ request' = NoRequest

\* C23: no request handler of the summarization or speech service changes
\* is_loaded, which changes only in the startup load, from false to true and
\* never back; an authorised, valid request to a provider endpoint that
\* arrives while is_loaded is false is answered 503 and no provider is
\* invoked
C23_ProviderReadOnly ==
    [][/\ LoadedOnlyByStartup
       /\ (/\ request = NoRequest
           /\ request' # NoRequest
           /\ request'.endpoint \in ProviderEndpoints
           /\ Admitted'
           /\ ~is_loaded) =>
              /\ response'.status = 503
              /\ calls' = <<>>]_vars

\* C23 as stated: every request to a provider endpoint that arrives while
\* is_loaded is false is answered 503
C23_ProviderReadOnlyLiteral ==
    [][/\ LoadedOnlyByStartup
       /\ (/\ request = NoRequest
           /\ request' # NoRequest
           /\ request'.endpoint \in ProviderEndpoints
           /\ ~is_loaded) =>
              /\ response'.status = 503
              /\ calls' = <<>>]_vars

\* an authorised, valid /summarize request was answered 503 before the
\* models were loaded
C23_Witness ==
    /\ request.endpoint = "/summarize"
    /\ Admitted
    /\ ~is_loaded
    /\ response.status = 503
    /\ calls = <<>>

\* two bodies agree on every field that changes the artifact generated
SameGenerationFields(endpoint, b1, b2) ==
    IF endpoint = "/tts"
    THEN /\ SameKeyFields(endpoint, b1, b2)
         /\ b1.pitch = b2.pitch
         /\ b1.volume = b2.volume
         /\ b1.sample_rate = b2.sample_rate
    ELSE /\ strip(b1.summary_text) = strip(b2.summary_text)
         /\ b1.audio_url = b2.audio_url
         /\ b1.theme = b2.theme
         /\ b1.title = b2.title
         /\ b1.images = b2.images
         /\ b1.duration = b2.duration

\* C24: a cache hit returns an artifact that was generated from the same
\* values of every field that changes the artifact: every earlier request
\* that generated the artifact returned agrees with the request on them
C24_HitsMatchRequest ==
    (/\ request.endpoint \in {"/tts", "/render"}
     /\ response.status = 200
     /\ response.body.metadata.cached) =>
        \A p \in request.known :
            ArtifactUrl(request.endpoint, p.response)
                    = ArtifactUrl(request.endpoint, response.body) =>
                SameGenerationFields(request.endpoint, p.body, request.body)

\* C27: the file that marks a cache hit for a render key, <key>.mp4 in the
\* output directory, exists only if some /render request for the key
\* completed successfully
C27_NoEntryFromFailure ==
    service = "video" =>
        \A f \in output_dir :
            f.name.suffix = ".mp4" =>
                \E p \in populated : p.response.video_url.file = f.name

\* C28: a /summarize request that passes validation, for which the primary
\* or the fallback pipeline returns a summary, is answered 200
C28_ValidInputSucceeds ==
    (/\ request.endpoint = "/summarize"
     /\ Admitted
     /\ \E i \in DOMAIN Made : Made[i].outcome.kind = "ok") =>
        response.status = 200

\* the same for contents whose preprocessed form has at least one word
C28_ValidWordyInputSucceeds ==
    (/\ request.endpoint = "/summarize"
     /\ Admitted
     /\ ContentWords[request.body.content] > 0
     /\ \E i \in DOMAIN Made : Made[i].outcome.kind = "ok") =>
        response.status = 200

\* the cache file of item i of the /tts/batch request being answered
ItemCacheFile(i) == cache_file(TTSRequest(BatchItem(request.body, i)))

\* C29: when a /tts/batch request ends in a 500 because the speech
\* generation of some item failed, every item has run (there is one record
\* of invocations per text) and every item that did not fail has its cache
\* file in the cache directory, the items after the failed one included.
C29_BatchJoins ==
    (/\ request.endpoint = "/tts/batch"
     /\ response.status = 500
     /\ FailedItems # {}) =>
        /\ Len(calls) = Len(request.body.texts)
        /\ \A i \in DOMAIN request.body.texts :
              i \notin FailedItems => exists(cache_dir, ItemCacheFile(i))

\* a batch answered 500 whose first item failed and whose second item
\* invoked the engine after it and left its cache file
C29_Witness ==
    /\ request.endpoint = "/tts/batch"
    /\ response.status = 500
    /\ \E i, j \in DOMAIN calls :
          /\ i < j
          /\ i \in FailedItems
          /\ calls[j] # <<>>
          /\ calls[j][1].outcome # "raise"
          /\ exists(cache_dir, ItemCacheFile(j))

\* the answer of /summarize/batch has one entry and one record of
\* invocations per article, whatever the items did
C29_SummaryBatchJoins ==
    (request.endpoint = "/summarize/batch" /\ response.status = 200) =>
        /\ Len(response.body) = Len(request.body.articles)
        /\ Len(calls) = Len(request.body.articles)

\* C18: a failure inside calculate_quality_score (the scorer raises, or the
\* original has no words) makes it return exactly 0.5, and when nothing else
\* fails the /summarize request is answered 200 with that score
C18_QualityAdvisory ==
    request.endpoint = "/summarize" =>
        \A i \in DOMAIN Scored(calls) :
            (Scored(calls)[i].outcome.kind = "raise" \/ Scored(calls)[i].original_words = 0) =>
                /\ Scored(calls)[i].returned = Ratio(1, 2)
                /\ Scored(calls)[i].original_words > 0 =>
                       /\ response.status = 200
                       /\ response.body.quality_score = Ratio(1, 2)

\* the scorer raised while a /summarize request was answered, and the
\* response is a summary with quality score 0.5
C18_Witness ==
    /\ request.endpoint = "/summarize"
    /\ Scored(calls) # <<>>
    /\ Scored(calls)[1].outcome.kind = "raise"
    /\ response.status = 200
    /\ response.body.quality_score = Ratio(1, 2)

(***************************************************************************)
(* The validation harness: one request model is validated on a body whose   *)
(* fields are valid except, possibly, one, whose value is drawn around the  *)
(* declared bounds.  A text is given by its shape and its length.           *)
(***************************************************************************)
\* solid: one word of n characters; blank: n spaces; words: one-letter words
\* separated by single spaces (a trailing space when n is even)
TextShapes == {"solid", "blank", "words"}

RECURSIVE Fill(_, _)
Fill(shape, n) ==
    IF n = 0 THEN <<>>
    ELSE IF shape = "solid" THEN Append(Fill(shape, n - 1), "x")
    ELSE IF shape = "blank" THEN Append(Fill(shape, n - 1), " ")
    ELSE Append(Fill(shape, n - 1), IF n % 2 = 1 THEN "x" ELSE " ")

\* Measure(Fill(shape, n)), in closed form
ShapeMeasure(shape, n) ==
    [len |-> n,
     words |-> IF shape = "blank" \/ n = 0 THEN 0
               ELSE IF shape = "solid" THEN 1 ELSE (n + 1) \div 2,
     stripped |-> IF shape = "blank" THEN 0
                  ELSE IF shape = "words" /\ n > 0 /\ n % 2 = 0 THEN n - 1 ELSE n]

TextsAround(lengths) == {ShapeMeasure(sh, n) : sh \in TextShapes, n \in lengths}

Models ==
    {"SummarizeRequest", "BatchSummarizeRequest", "TTSRequest", "BatchTTSRequest",
     "VideoRenderRequest", "ThumbnailRequest"}

\* a body of each model that passes validation
ValidBody(model) ==
    CASE model = "SummarizeRequest" ->
            [title |-> ShapeMeasure("solid", 9), content |-> ShapeMeasure("words", 100),
             length_hint |-> Some(120), language |-> ShapeMeasure("solid", 2)]
      [] model = "BatchSummarizeRequest" -> [articles |-> <<>>, count |-> 0]
      [] model = "TTSRequest" ->
            [text |-> ShapeMeasure("solid", 6), speed |-> 10, pitch |-> 10, volume |-> 10,
             sample_rate |-> Some(22050)]
      [] model = "BatchTTSRequest" -> [count |-> 1, speed |-> 10]
      [] model = "VideoRenderRequest" ->
            [summary_text |-> ShapeMeasure("words", 11), title |-> ShapeMeasure("solid", 9),
             duration |-> None]
      [] model = "ThumbnailRequest" ->
            [title |-> ShapeMeasure("solid", 9), subtitle |-> None]

\* n articles, each the valid SummarizeRequest body
Articles(n) ==
    [articles |-> [i \in 1..n |-> ValidBody("SummarizeRequest")], count |-> n]

\* the fields a client sends
Fields(model) ==
    IF model = "BatchSummarizeRequest" THEN {"articles"} ELSE DOMAIN ValidBody(model)

\* the values a field of a model is tried with
FieldValues(model, field) ==
    CASE model = "SummarizeRequest" /\ field = "title" -> TextsAround({0, 1, 200, 201})
      [] model = "SummarizeRequest" /\ field = "content" ->
            TextsAround({39, 99, 100, 10000, 10001})
      [] model = "SummarizeRequest" /\ field = "length_hint" ->
            {None, Some(29), Some(30), Some(300), Some(301)}
      [] model = "SummarizeRequest" /\ field = "language" -> TextsAround({1, 2, 3})
      [] model = "BatchSummarizeRequest" /\ field = "articles" ->
            { Articles(n).articles : n \in {0, 1, 10, 11} }
              \cup { <<[ValidBody("SummarizeRequest") EXCEPT !.title = ShapeMeasure("solid", 0)]>> }
      [] model = "TTSRequest" /\ field = "text" -> TextsAround({0, 1, 1000, 1001})
      [] model = "TTSRequest" /\ field = "speed" -> {4, 5, 20, 21}
      [] model = "TTSRequest" /\ field = "pitch" -> {4, 5, 20, 21}
      [] model = "TTSRequest" /\ field = "volume" -> {0, 1, 20, 21}
      [] model = "TTSRequest" /\ field = "sample_rate" ->
            {None, Some(7999), Some(8000), Some(48000), Some(48001)}
      [] model = "BatchTTSRequest" /\ field = "count" -> {0, 5, 6}
      [] model = "BatchTTSRequest" /\ field = "speed" -> {4, 5, 20, 21}
      [] model = "VideoRenderRequest" /\ field = "summary_text" ->
            TextsAround({9, 10, 2000, 2001})
      [] model = "VideoRenderRequest" /\ field = "title" -> TextsAround({4, 5, 100, 101})
      [] model = "VideoRenderRequest" /\ field = "duration" ->
            {None, Some(4), Some(5), Some(300), Some(301)}
      [] model = "ThumbnailRequest" /\ field = "title" -> TextsAround({4, 5, 100, 101})
      [] model = "ThumbnailRequest" /\ field = "subtitle" ->
            {None} \cup {Some(m) : m \in TextsAround({0, 200, 201})}

\* the body of the model with one field replaced; the number of articles
\* follows the list
BodyWith(model, field, value) ==
    IF model = "BatchSummarizeRequest"
    THEN [articles |-> value, count |-> Len(value)]
    ELSE [ValidBody(model) EXCEPT ![field] = value]

\* the validation of a body by its model
validate(model, b) ==
    CASE model = "SummarizeRequest" -> SummarizeRequest_errors(b)
      [] model = "BatchSummarizeRequest" -> BatchSummarizeRequest_errors(b)
      [] model = "TTSRequest" -> TTSRequest_errors(b)
      [] model = "BatchTTSRequest" -> BatchTTSRequest_errors(b)
      [] model = "VideoRenderRequest" -> VideoRenderRequest_errors(b)
      [] model = "ThumbnailRequest" -> ThumbnailRequest_errors(b)

\* the body was accepted: the handler has yet to answer
Validated == [status |-> 0, fields |-> {}]

validation_result(errors) ==
    IF errors = {} THEN Validated ELSE RequestValidationError(errors)

InitValidate == service = "validation" /\ InitServices

Validate ==
    /\ service = "validation"
    /\ request = NoRequest
    /\ \E model \in Models :
          \E field \in Fields(model) :
              \E value \in FieldValues(model, field) :
                  /\ request' = [endpoint |-> "validate", model |-> model, field |-> field,
                                 value |-> value]
                  /\ response' = validation_result(validate(model, BodyWith(model, field, value)))
    /\ UNCHANGED <<service, textVars, is_loaded, calls, diskVars, videoVars>>

NextValidate == Validate \/ Discard

SpecValidate == InitValidate /\ [][NextValidate]_vars

(***************************************************************************)
(* Properties of validation at the declared length bounds.                  *)
(***************************************************************************)
\* the declared length bounds of the request fields; lo = 0 where none is
\* declared; name is the field a ValidationError names
LengthBounds ==
    { [model |-> "SummarizeRequest", field |-> "title", name |-> "title", lo |-> 1, hi |-> 200],
      [model |-> "SummarizeRequest", field |-> "content", name |-> "content",
       lo |-> 100, hi |-> 10000],
      [model |-> "SummarizeRequest", field |-> "language", name |-> "language", lo |-> 2, hi |-> 2],
      [model |-> "BatchSummarizeRequest", field |-> "articles", name |-> "articles",
       lo |-> 0, hi |-> 10],
      [model |-> "TTSRequest", field |-> "text", name |-> "text", lo |-> 1, hi |-> 1000],
      [model |-> "BatchTTSRequest", field |-> "count", name |-> "texts", lo |-> 0, hi |-> 5],
      [model |-> "VideoRenderRequest", field |-> "summary_text", name |-> "summary_text",
       lo |-> 10, hi |-> 2000],
      [model |-> "VideoRenderRequest", field |-> "title", name |-> "title", lo |-> 5, hi |-> 100],
      [model |-> "ThumbnailRequest", field |-> "title", name |-> "title", lo |-> 5, hi |-> 100],
      [model |-> "ThumbnailRequest", field |-> "subtitle", name |-> "subtitle",
       lo |-> 0, hi |-> 200] }

\* the length-constrained field the validated request varies, if any
BoundsOfRequest ==
    {c \in LengthBounds :
        /\ request.endpoint = "validate"
        /\ c.model = request.model
        /\ c.field = request.field
        /\ c.field = "subtitle" => request.value # None}

\* the length of the value the request carries in that field
ValueLength ==
    IF request.model = "BatchSummarizeRequest" THEN Len(request.value)
    ELSE IF request.model = "BatchTTSRequest" THEN request.value
    ELSE IF request.field = "subtitle" THEN request.value[1].len
    ELSE request.value.len

\* the validators a field has besides its length bounds accept the value
OtherValidatorsAccept ==
    IF request.field = "content" THEN request.value.words >= 20
    ELSE IF request.field \in {"text", "summary_text"} THEN request.value.stripped > 0
    ELSE TRUE

Pieces ==
    { <<"a">>, <<" ">>, <<"@">>, <<".">>, <<"D","r",".">>,
      <<"h","t","t","p",":","/","/","a">> }

RECURSIVE Flatten(_)
Flatten(ps) == IF ps = <<>> THEN <<>> ELSE Head(ps) \o Flatten(Tail(ps))

Texts == { Flatten(ps) : ps \in UNION { [1..n -> Pieces] : n \in 0..MaxPieces } }

TextServices == {"summarizer", "tts"}

preprocess_text(svc, s) ==
    IF svc = "summarizer" THEN sum_preprocess_text(s) ELSE tts_preprocess_text(s)

InitText ==
    /\ service \in TextServices
    /\ text \in Texts
    /\ prev = text
    /\ napplied = 0
    /\ is_loaded = FALSE
    /\ request = NoRequest
    /\ response = NoResponse
    /\ calls = <<>>
    /\ cache_dir = {}
    /\ output_dir = {}
    /\ populated = {}
    /\ procs = <<>>
    /\ nreq = 0

Preprocess ==
    /\ napplied < 2
    /\ text' = preprocess_text(service, text)
    /\ prev' = text
    /\ napplied' = napplied + 1
    /\ UNCHANGED <<service, is_loaded, request, response, calls, diskVars, videoVars>>

NextText == Preprocess

SpecText == InitText /\ [][NextText]_vars

\* C9: preprocess_text(preprocess_text(x)) = preprocess_text(x) for every
\* text x, in the summarizer and in the speech service: the second
\* application changes nothing.
C9_Idempotent == napplied = 2 => text = prev

(***************************************************************************)
(* The metrics harness: extract_key_points and calculate_quality_score are  *)
(* applied to inputs drawn from bounded sets.  A text is given by the       *)
(* sentences the tokenizer finds in it, a sentence by its identity and its  *)
(* number of words.                                                         *)
(***************************************************************************)
MaxSentences == 3
MaxPoints == 3

\* sentences around the minimum length of 5 words and the optimal length of
\* 20 words
KeyPointSentences ==
    { [text |-> "a", words |-> 2], [text |-> "b", words |-> 4],
      [text |-> "c", words |-> 5], [text |-> "d", words |-> 12],
      [text |-> "e", words |-> 25] }

\* word counts of originals and summaries, the empty text included
OriginalWords == {0, 1, 5, 10, 20}
SummaryWords == {0, 1, 2, 10, 30}

\* what the overlap scorer may return for a pair of texts, or it raises
MetricScorerOutcomes ==
    [kind : {"ok"}, rouge1 : {0, 5, 10}, rougeL : {0, 5, 10}] \cup
    { [kind |-> "raise", rouge1 |-> 0, rougeL |-> 0] }

InitMetrics == service = "metrics" /\ InitServices

ExtractKeyPoints ==
    /\ service = "metrics"
    /\ request = NoRequest
    /\ \E n \in 0..MaxSentences, num_points \in 0..MaxPoints :
          \E sentences \in [1..n -> KeyPointSentences], rounding \in [1..n -> {0, 1}] :
              /\ request' = [endpoint |-> "extract_key_points", sentences |-> sentences,
                             num_points |-> num_points]
              /\ response' = [status |-> 0,
                              body |-> extract_key_points(sentences, num_points, rounding)]
              /\ calls' = ranked_sentences(sentences, num_points, rounding)
    /\ UNCHANGED <<service, textVars, is_loaded, diskVars, videoVars>>

CalculateQualityScore ==
    /\ service = "metrics"
    /\ request = NoRequest
    /\ \E original_words \in OriginalWords, summary_words \in SummaryWords,
          scorer \in MetricScorerOutcomes :
          /\ request' = [endpoint |-> "calculate_quality_score",
                         original_words |-> original_words,
                         summary_words |-> summary_words, scorer |-> scorer]
          /\ response' = [status |-> 0,
                          body |-> calculate_quality_score(original_words, summary_words,
                                                           scorer)]
    /\ UNCHANGED <<service, textVars, is_loaded, calls, diskVars, videoVars>>

NextMetrics == ExtractKeyPoints \/ CalculateQualityScore \/ Discard

SpecMetrics == InitMetrics /\ [][NextMetrics]_vars

(***************************************************************************)
(* Properties of the metrics.                                               *)
(***************************************************************************)
\* the sentences of the text being ranked that have at least 5 words
Qualifying == {i \in DOMAIN request.sentences : request.sentences[i].words >= 5}

\* C15: extract_key_points(text, N) returns at most N sentences, each of them
\* a sentence of the text with at least 5 words, and the empty list when no
\* sentence of the text has at least 5 words
C15_KeyPointExclusion ==
    request.endpoint = "extract_key_points" =>
        /\ Len(response.body) <= request.num_points
        /\ \A p \in DOMAIN response.body :
              /\ \E i \in DOMAIN request.sentences : request.sentences[i] = response.body[p]
              /\ response.body[p].words >= 5
        /\ Qualifying = {} => response.body = <<>>

\* a text with a sentence below the minimum length and one at it, of which
\* the second is returned
C15_Witness ==
    /\ request.endpoint = "extract_key_points"
    /\ \E i \in DOMAIN request.sentences : request.sentences[i].words < 5
    /\ Cardinality(Qualifying) > request.num_points
    /\ request.num_points > 0
    /\ Len(response.body) = request.num_points
    /\ \E p \in DOMAIN response.body : response.body[p].words = 5

\* the score of the claim for the sentence at index i (from 0) of the text,
\* as a multiple of 1 / (200 * sentence_count)
ClaimScore(i) ==
    140 * Len(request.sentences) - 42 * i
        + 3 * Len(request.sentences) * Min(request.sentences[i + 1].words, 20)

\* C16: the sentences are returned in non-increasing order of
\* 0.7 * (1 - 0.3 * index / sentence_count) + 0.3 * min(word_count / 20, 1),
\* sentence_count counting the excluded sentences too; of two sentences with
\* equal length score the one of lower index comes first
C16_KeyPointOrder ==
    request.endpoint = "extract_key_points" =>
        \A p, q \in DOMAIN calls :
            p < q =>
                /\ calls[p].sentence = request.sentences[calls[p].index + 1]
                /\ response.body[p] = calls[p].sentence
                /\ ClaimScore(calls[p].index) >= ClaimScore(calls[q].index)
                /\ Min(calls[p].sentence.words, 20) = Min(calls[q].sentence.words, 20)
                       => calls[p].index < calls[q].index

\* a later, longer sentence is ranked before an earlier one, and two
\* sentences of equal length score are both returned
C16_Witness ==
    /\ request.endpoint = "extract_key_points"
    /\ \E p, q \in DOMAIN calls : p < q /\ calls[p].index > calls[q].index
    /\ \E p, q \in DOMAIN calls :
          /\ p < q
          /\ Min(calls[p].sentence.words, 20) = Min(calls[q].sentence.words, 20)

\* the weighted sum of the claim, as a multiple of 1 / (1000 * original_words):
\* 0.7 * rouge_blend + 0.3 * clamp(1 - 2 * |ratio - 0.1|, 0, 1)
\* rouge_blend is (rouge1 + rougeL) / 20 with the f-measures in tenths
ClaimQuality(o, w, scorer) ==
    7 * (5 * o * (scorer.rouge1 + scorer.rougeL))
        + 3 * (20 * Clamp(5 * o - Abs(10 * w - o), 0, 5 * o))

\* C17: the quality score q satisfies 0 <= q <= 1 for every original and
\* summary, the empty ones included, and equals
\* clamp(0.7 * rouge_blend + 0.3 * clamp(1 - 2 * |ratio - 0.1|, 0, 1), 0, 1)
\* when the overlap computation succeeds
C17_QualityBounds ==
    request.endpoint = "calculate_quality_score" =>
        /\ response.body.den > 0
        /\ 0 <= response.body.num
        /\ response.body.num <= response.body.den
        /\ (request.scorer.kind = "ok" /\ request.original_words > 0) =>
               response.body.num * 1000 * request.original_words =
                   response.body.den
                       * Clamp(ClaimQuality(request.original_words, request.summary_words,
                                            request.scorer),
                               0, 1000 * request.original_words)

\* a summary three times as long as the original: the length score is
\* clamped at 0 and the quality is the overlap part alone
C17_Witness ==
    /\ request.endpoint = "calculate_quality_score"
    /\ request.scorer.kind = "ok"
    /\ request.original_words = 10
    /\ request.summary_words = 30
    /\ request.scorer.rouge1 = 10
    /\ request.scorer.rougeL = 10
    /\ response.body.num * 10 = response.body.den * 7

(***************************************************************************)
(* The subtitle harness: create_subtitle_clips and create_srt_subtitles are *)
(* applied to the same text and duration, as generate_video applies them.   *)
(* A text is a sequence of clauses, each ending in a sentence mark.         *)
(***************************************************************************)
MaxClauses == 3

Clauses ==
    { <<"H","i",".">>, <<" ","Y","e","s","!">>, <<"G","o","o","d","?">>,
      <<" ","G","o","o","d"," ","n","e","w","s"," ",".">>, <<" ",".">>, <<"o","k">> }

AudioDurations == {1, 7, 10}

InitSubtitles == service = "subtitles" /\ InitServices

CreateSubtitles ==
    /\ service = "subtitles"
    /\ request = NoRequest
    /\ \E n \in 0..MaxClauses, audio_duration \in AudioDurations, outcome \in {"ok", "raise"} :
          \E clauses \in [1..n -> Clauses] :
              /\ request' = [endpoint |-> "subtitles", text |-> Flatten(clauses),
                             audio_duration |-> audio_duration, outcome |-> outcome]
              /\ response' = [status |-> 0,
                              body |-> [clips |-> create_subtitle_clips(Flatten(clauses),
                                                                       audio_duration, outcome),
                                        srt |-> srt_items(Flatten(clauses), audio_duration)]]
    /\ UNCHANGED <<service, textVars, is_loaded, calls, diskVars, videoVars>>

NextSubtitles == CreateSubtitles \/ Discard

SpecSubtitles == InitSubtitles /\ [][NextSubtitles]_vars

(***************************************************************************)
(* Properties of the subtitles.                                             *)
(***************************************************************************)
\* the non-empty sentences of the text being subtitled
Sentences == srt_sentences(request.text)

\* entry e is the entry of the claim for the sentence in slot e.slot: the
\* interval [i * D / n, min((i + 1) * D / n, D)]
ClaimedSlot(e) ==
    /\ e.slot \in 0..(Len(Sentences) - 1)
    /\ e.text = Sentences[e.slot + 1]
    /\ Len(e.text) > 3
    /\ e.start.num * Len(Sentences) = e.slot * request.audio_duration * e.start.den
    /\ e.end.num * Len(Sentences) =
           Min((e.slot + 1) * request.audio_duration,
               Len(Sentences) * request.audio_duration) * e.end.den

\* the entries follow the order of the sentences, do not overlap and lie
\* inside [0, D]
Sliced(entries) ==
    /\ \A p \in DOMAIN entries :
          /\ ClaimedSlot(entries[p])
          /\ 0 <= entries[p].start.num
          /\ entries[p].start.num * entries[p].end.den <= entries[p].end.num * entries[p].start.den
          /\ entries[p].end.num <= request.audio_duration * entries[p].end.den
    /\ \A p, q \in DOMAIN entries :
          p < q =>
              /\ entries[p].slot < entries[q].slot
              /\ entries[p].end.num * entries[q].start.den
                     <= entries[q].start.num * entries[p].end.den

MaxKeyField == 2

KeyChars == {"a", "_"}

KeyStrings == UNION { [1..n -> KeyChars] : n \in 1..MaxKeyField }

\* the key fields of a /tts body and of a /render body
SpeechKeyFields == [text : KeyStrings, voice_id : KeyStrings, speed : {10, 15}]

RenderKeyFields == [summary_text : {SummaryText}, audio_url : KeyStrings, theme : KeyStrings]

\* the key generate_speech computes for a body with these fields
speech_key(f) ==
    generate_file_hash(tts_preprocess_text(normalize_whitespace(f.text)), f.voice_id, f.speed)

\* the key generate_video computes for a body with these fields
video_key(f) ==
    render_key(VideoRenderRequest(
        [BaseVideoBody EXCEPT !.summary_text = f.summary_text,
                              !.audio_url = AudioUrl \o f.audio_url,
                              !.theme = f.theme]))

InitKeys == service = "keys" /\ InitServices

SpeechKeys ==
    /\ service = "keys"
    /\ request = NoRequest
    /\ \E first \in SpeechKeyFields, second \in SpeechKeyFields :
          /\ request' = [endpoint |-> "generate_file_hash", first |-> first, second |-> second]
          /\ response' = [status |-> 0, body |-> <<speech_key(first), speech_key(second)>>]
    /\ UNCHANGED <<service, textVars, is_loaded, calls, diskVars, videoVars>>

RenderKeys ==
    /\ service = "keys"
    /\ request = NoRequest
    /\ \E first \in RenderKeyFields, second \in RenderKeyFields :
          /\ request' = [endpoint |-> "generate_cache_key", first |-> first, second |-> second]
          /\ response' = [status |-> 0, body |-> <<video_key(first), video_key(second)>>]
    /\ UNCHANGED <<service, textVars, is_loaded, calls, diskVars, videoVars>>

NextKeys == SpeechKeys \/ RenderKeys \/ Discard

SpecKeys == InitKeys /\ [][NextKeys]_vars

(***************************************************************************)
(* Properties of the keys.                                                  *)
(***************************************************************************)
\* C25: two different tuples of key fields never give the same string to
\* hash, for the speech key (text, voice_id, speed) and for the render key
\* (summary_text, audio_url, theme)
C25_KeyMaterialInjective ==
    request.endpoint \in {"generate_file_hash", "generate_cache_key"} =>
        (request.first # request.second => response.body[1][2] # response.body[2][2])

\* the same for tuples that differ in the speed only
C25_SpeedDistinguished ==
    request.endpoint = "generate_file_hash" =>
        ((/\ request.first.text = request.second.text
          /\ request.first.voice_id = request.second.voice_id
          /\ request.first.speed # request.second.speed) =>
             response.body[1][2] # response.body[2][2])

(***************************************************************************)
(* The length harness: the pipelines are invoked as generate_summary        *)
(* invokes them, for length hints of the declared range 30..300 and for the *)
(* word counts of contents that pass validation (at least 20 words, at most *)
(* 10000 characters, so at most 5000 words).                                *)
(***************************************************************************)
LengthHintValues == {30, 50, 100, 150, 170, 171, 200, 300}

ContentWordCounts == {20, 299, 300, 1000, 1700, 1710, 2000, 5000}

InitLengths == service = "lengths" /\ InitServices

GenerationLengths ==
    /\ service = "lengths"
    /\ request = NoRequest
    /\ \E length_hint \in LengthHintValues, content_words \in ContentWordCounts,
          prim \in ProviderOutcomes, fall \in ProviderOutcomes :
          /\ request' = [endpoint |-> "generation_lengths", length_hint |-> length_hint,
                         content_words |-> content_words]
          /\ response' = [status |-> 0, body |-> target_length(length_hint, content_words)]
          /\ calls' = invoke_pipelines(target_length(length_hint, content_words),
                                       prim, fall).calls
    /\ UNCHANGED <<service, textVars, is_loaded, diskVars, videoVars>>

NextLengths == GenerationLengths \/ Discard

SpecLengths == InitLengths /\ [][NextLengths]_vars

(***************************************************************************)
(* Properties of the generation lengths.                                    *)
(***************************************************************************)
\* the target of the claim: min(length_hint, max(30, content_words // 10))
ClaimTarget ==
    Min(request.length_hint, Max(30, request.content_words \div 10))

\* C26: for every length_hint in 30..300 and every admissible content the
\* primary summarizer is invoked with min_length <= max_length, where
\* max_length = min(target + 50, 150) and min_length = max(target - 20, 30),
\* and the fallback with max(target - 10, 20) <= target + 30
C26_LengthBoundsOrdered ==
    request.endpoint = "generation_lengths" =>
        \A i \in DOMAIN calls :
            /\ calls[i].min_length <= calls[i].max_length
            /\ calls[i].config = MODEL_NAME =>
                   /\ calls[i].max_length = Min(ClaimTarget + 50, 150)
                   /\ calls[i].min_length = Max(ClaimTarget - 20, 30)
            /\ calls[i].config = FALLBACK_MODEL =>
                   /\ calls[i].max_length = ClaimTarget + 30
                   /\ calls[i].min_length = Max(ClaimTarget - 10, 20)

\* the same with the order required of the fallback only
C26_FallbackBoundsOrdered ==
    request.endpoint = "generation_lengths" =>
        \A i \in DOMAIN calls :
            /\ calls[i].config = MODEL_NAME =>
                   /\ calls[i].max_length = Min(ClaimTarget + 50, 150)
                   /\ calls[i].min_length = Max(ClaimTarget - 20, 30)
            /\ calls[i].config = FALLBACK_MODEL =>
                   /\ calls[i].min_length <= calls[i].max_length
                   /\ calls[i].max_length = ClaimTarget + 30
                   /\ calls[i].min_length = Max(ClaimTarget - 10, 20)

(***************************************************************************)
(* The event loop of a process.  Each service runs its handlers as          *)
(* coroutines on the single thread of one asyncio loop: a coroutine keeps   *)
(* the thread from the moment the loop runs it until its next await.  The   *)
(* tasks of the loop are the elements of procs; calls is the order in which *)
(* the requests were answered.                                              *)
(***************************************************************************)
LoopServices == {"summarizer-loop", "tts-loop", "video-loop"}

\* the handlers of the routes of a service
Handlers(svc) ==
    IF svc = "summarizer-loop"
    THEN {"summarize_article", "summarize_batch", "health_check"}
    ELSE IF svc = "tts-loop"
    THEN {"text_to_speech", "batch_text_to_speech", "health_check"}
    ELSE {"render_video", "health_check"}

\* a task that has not run yet: the handler of request id, or (parent # 0)
\* a coroutine that the batch handler of request parent handed to gather
Task(id, handler, parent) == [id |-> id, handler |-> handler, parent |-> parent, pc |-> "ready"]

\* the thread of the loop is inside no coroutine: a task whose pc is
\* "invoking" is inside model_manager.summarizer(...), tts_manager.tts.tts(...)
\* or write_videofile(...), which are plain calls, not awaits
LoopIdle == \A i \in DOMAIN procs : procs[i].pc # "invoking"

\* the tasks asyncio.gather(*tasks) creates for a batch of n items
gather_tasks(id, n) == [k \in 1..n |-> Task(id, "generate", id)]

\* the task was answered, or its result was handed to gather
finished(i) ==
    /\ procs' = Remove(procs, i)
    /\ calls' = IF procs[i].parent = 0
                THEN Append(calls, [id |-> procs[i].id, handler |-> procs[i].handler])
                ELSE calls

\* a request arrives at the process
Receive ==
    /\ service \in LoopServices
    /\ nreq < MaxReq
    /\ nreq' = nreq + 1
    /\ \E handler \in Handlers(service) :
          procs' = Append(procs, Task(nreq + 1, handler, 0))
    /\ UNCHANGED <<service, textVars, is_loaded, request, response, calls, diskVars>>

\* the loop runs a task that has not run yet, up to its first await, its
\* model invocation or its return
Run(i) ==
    /\ service \in LoopServices
    /\ LoopIdle
    /\ procs[i].pc = "ready"
    /\ \/ /\ procs[i].handler = "health_check"
          /\ finished(i)
       \/ /\ procs[i].handler \in {"summarize_article", "text_to_speech", "generate"}
          /\ \/ procs' = [procs EXCEPT ![i].pc = "invoking"] /\ calls' = calls
             \/ finished(i)
       \/ /\ procs[i].handler \in {"summarize_batch", "batch_text_to_speech"}
          /\ \E n \in 1..MaxBatch :
                procs' = [procs EXCEPT ![i].pc = "gather"] \o gather_tasks(procs[i].id, n)
          /\ calls' = calls
       \/ /\ procs[i].handler = "render_video"
          /\ \/ procs' = [procs EXCEPT ![i].pc = "download"] /\ calls' = calls
             \/ finished(i)
    /\ UNCHANGED <<service, textVars, is_loaded, request, response, diskVars, nreq>>

\* the model invocation returns and the coroutine runs to its return
Return(i) ==
    /\ service \in LoopServices
    /\ procs[i].pc = "invoking"
    /\ finished(i)
    /\ UNCHANGED <<service, textVars, is_loaded, request, response, diskVars, nreq>>

\* await download_file(...) is over: generate_video goes on to
\* write_videofile
Downloaded(i) ==
    /\ service \in LoopServices
    /\ LoopIdle
    /\ procs[i].pc = "download"
    /\ procs' = [procs EXCEPT ![i].pc = "invoking"]
    /\ UNCHANGED <<service, textVars, is_loaded, request, response, calls, diskVars, nreq>>

\* await asyncio.gather(*tasks) is over when every task has finished: the
\* batch handler builds its response
Gathered(i) ==
    /\ service \in LoopServices
    /\ LoopIdle
    /\ procs[i].pc = "gather"
    /\ \A j \in DOMAIN procs : procs[j].parent # procs[i].id
    /\ finished(i)
    /\ UNCHANGED <<service, textVars, is_loaded, request, response, diskVars, nreq>>

InitLoop == service \in LoopServices /\ InitServices

NextLoop ==
    \/ Receive
    \/ \E i \in DOMAIN procs : Run(i)
    \/ \E i \in DOMAIN procs : Return(i)
    \/ \E i \in DOMAIN procs : Downloaded(i)
    \/ \E i \in DOMAIN procs : Gathered(i)

SpecLoop == InitLoop /\ [][NextLoop]_vars

(***************************************************************************)
(* Properties of the event loop.                                            *)
(***************************************************************************)
\* C21: while the model invocation of one request is in progress, another
\* request of the same process (a health check, a sibling item of the same
\* batch) that has not run yet can start
C21_HandlersYield ==
    \A i, j \in DOMAIN procs :
        (procs[i].pc = "invoking" /\ procs[j].pc = "ready") => ENABLED Run(j)

\* a task that has not run yet can start while no invocation is in progress,
\* the other tasks being suspended at an await
C21_YieldAtAwait ==
    \A j \in DOMAIN procs : (LoopIdle /\ procs[j].pc = "ready") => ENABLED Run(j)

(***************************************************************************)
(* The temp image files of process_images.  The tasks of procs are the      *)
(* process_images coroutines of the /render requests in flight; cache_dir   *)
(* holds the temp files, a file's content being the bytes written to it     *)
(* (the request that downloaded them and the URL they came from), or        *)
(* nothing when the file was opened for writing and not yet written.        *)
(***************************************************************************)
MaxImages == 2

MaxImageTasks == 2

MaxSecond == 1

\* the values of int(time.time()) while the requests are in flight
Seconds == 0..MaxSecond

OtherImageUrl == <<"h","t","t","p",":","/","/","j">>

ImageLists == UNION {[1..n -> {ImageUrl, OtherImageUrl}] : n \in 0..MaxImages}

\* Path(config.CACHE_DIR) / f"temp_image_{i}_{int(time.time())}.jpg"
temp_image_path(i, second) == FileName("temp_image_", <<i, second>>, ".jpg")

\* process_images(image_urls, video_duration) of request id, before its loop
ImageTask(id, urls) ==
    [id |-> id, urls |-> urls, image |-> 0, second |-> 0, pc |-> "loop",
     clips |-> <<>>, unlinked |-> {}, paths |-> {}]

\* the temp_path of the image the task is at
temp_path(p) == temp_image_path(p.image, p.second)

\* the bytes client.get(url) returns to the task for that image
image_bytes(p) == [request |-> p.id, url |-> p.urls[p.image + 1]]

\* for i, url in enumerate(image_urls[:5]): the task enters the iteration of
\* index i at the second now, computes temp_path and is suspended in
\* client.get(url); after the last image it returns its clips
loop_step(p, i, now) ==
    IF i >= Min(Len(p.urls), 5)
    THEN [p EXCEPT !.pc = "done"]
    ELSE [p EXCEPT !.image = i, !.second = now, !.pc = "get",
                   !.paths = p.paths \cup {temp_image_path(i, now)}]

\* ImageClip(str(temp_path), ...) and the unlink that follows it: a file
\* that is missing or empty makes ImageClip raise, and the except clause of
\* the loop skips the image, the unlink included
image_clip(p, cache) ==
    IF exists(cache, temp_path(p)) /\ file_at(cache, temp_path(p)).content # None
    THEN [p EXCEPT !.clips = Append(p.clips,
                                    [index |-> p.image,
                                     bytes |-> file_at(cache, temp_path(p)).content[1]]),
                   !.unlinked = p.unlinked \cup
                                    {file_at(cache, temp_path(p)).content[1].request}]
    ELSE p

\* temp_path.unlink(), reached when ImageClip did not raise
unlink_temp(p, cache) ==
    IF exists(cache, temp_path(p)) /\ file_at(cache, temp_path(p)).content # None
    THEN {f \in cache : f.name # temp_path(p)}
    ELSE cache

\* the clock does not run backwards
Clock ==
    IF procs = <<>> THEN 0
    ELSE CHOOSE s \in Seconds :
            /\ \E t \in DOMAIN procs : procs[t].second = s
            /\ \A t \in DOMAIN procs : procs[t].second <= s

\* generate_video of a /render request reaches process_images
ProcessImages ==
    /\ service = "video-images"
    /\ nreq < MaxImageTasks
    /\ nreq' = nreq + 1
    /\ \E urls \in ImageLists, now \in Seconds :
          /\ now >= Clock
          /\ procs' = Append(procs, loop_step(ImageTask(nreq + 1, urls), 0, now))
    /\ UNCHANGED <<service, textVars, is_loaded, request, response, calls, diskVars>>

\* await client.get(url) returns: the download failed and the loop goes on
\* with the next image, or aiofiles.open(destination, 'wb') creates or
\* truncates the file
ClientGet(t) ==
    /\ service = "video-images"
    /\ procs[t].pc = "get"
    /\ \/ /\ \E now \in Seconds :
                /\ now >= Clock
                /\ procs' = [procs EXCEPT ![t] = loop_step(procs[t], procs[t].image + 1, now)]
          /\ cache_dir' = cache_dir
       \/ /\ procs' = [procs EXCEPT ![t].pc = "opened"]
          /\ cache_dir' = write_file(cache_dir, [name |-> temp_path(procs[t]), content |-> None])
    /\ UNCHANGED <<service, textVars, is_loaded, request, response, calls, output_dir,
                   populated, nreq>>

\* await f.write(response.content): the bytes go to the file the task
\* opened, which is at temp_path unless it was unlinked since
FileWritten(t) ==
    /\ service = "video-images"
    /\ procs[t].pc = "opened"
    /\ procs' = [procs EXCEPT ![t].pc = "written"]
    /\ cache_dir' = IF exists(cache_dir, temp_path(procs[t]))
                    THEN write_file(cache_dir, [name |-> temp_path(procs[t]),
                                                content |-> Some(image_bytes(procs[t]))])
                    ELSE cache_dir
    /\ UNCHANGED <<service, textVars, is_loaded, request, response, calls, output_dir,
                   populated, nreq>>

\* await download_file(url, temp_path) returns, after the file and the
\* client were closed: the clip is loaded, the temp file is deleted and the
\* loop goes on with the next image
ImageLoaded(t) ==
    /\ service = "video-images"
    /\ procs[t].pc = "written"
    /\ \E now \in Seconds :
          /\ now >= Clock
          /\ procs' = [procs EXCEPT ![t] = loop_step(image_clip(procs[t], cache_dir),
                                                     procs[t].image + 1, now)]
    /\ cache_dir' = unlink_temp(procs[t], cache_dir)
    /\ UNCHANGED <<service, textVars, is_loaded, request, response, calls, output_dir,
                   populated, nreq>>

InitImages == service = "video-images" /\ InitServices

NextImages ==
    \/ ProcessImages
    \/ \E t \in DOMAIN procs : ClientGet(t)
    \/ \E t \in DOMAIN procs : FileWritten(t)
    \/ \E t \in DOMAIN procs : ImageLoaded(t)

SpecImages == InitImages /\ [][NextImages]_vars

(***************************************************************************)
(* Properties of the temp image files.                                      *)
(***************************************************************************)
\* every clip of the task was loaded from the bytes the task itself
\* downloaded from the URL of that image, and every temp file the task
\* deleted held bytes the task itself had written
PrivateImages(p) ==
    /\ \A k \in DOMAIN p.clips :
          p.clips[k].bytes = [request |-> p.id, url |-> p.urls[p.clips[k].index + 1]]
    /\ p.unlinked \subseteq {p.id}

\* C30: with several /render requests processing images concurrently, the
\* clip a request builds for its i-th image is loaded from the bytes
\* downloaded from its own i-th URL, and no request reads or deletes a temp
\* image file written by another request.
C30_TempImagesPrivate == \A t \in DOMAIN procs : PrivateImages(procs[t])

\* the same for requests that never computed the same temp_path, which is
\* the case when they reach an image index in different seconds
C30_PrivateWithDistinctPaths ==
    (\A t, u \in DOMAIN procs : t # u => procs[t].paths \cap procs[u].paths = {}) =>
        \A t \in DOMAIN procs : PrivateImages(procs[t])

=============================================================================
